---- MODULE Spec2Model ----
(***************************************************************************)
(* Model of pulsegen/review_scraper/scraper.py: the pagination loops of    *)
(* scrape_g2 and scrape_trustradius, the blocked-page detector, the body   *)
(* and date fallback chains and the date-window filter.                    *)
(*                                                                         *)
(* Texts returned by the browser are sequences of Unicode code points.     *)
(* The web site is the environment: every navigation outcome, page and     *)
(* review container is chosen when the program asks for it.                *)
(***************************************************************************)
EXTENDS Integers, Sequences, FiniteSets, TLC

\* ------------------------------------------------------------------ bounds
MaxPagesBound == 2
MaxCards == 2
MaxDate == 3

\* ------------------------------------------------------- program constants
CardCap == 60
MinBodyLen == 20

VARIABLES
  source,           \* args.source: which adapter runs
  today,            \* the year the clock stands in during the run
  max_pages,        \* argument
  start_d, end_d,   \* the date window
  pc,               \* position of the run
  page_no,          \* loop variable of the pagination loop
  collected,        \* list of records
  stop_due_to_old,  \* run-scoped flag of scrape_g2
  session,          \* the browser and the context: none, open or closed
  page,             \* what has been read of the document the browser holds
  card_count,       \* min(cards.count(), 60)
  i,                \* containers of the current page processed so far
  card,             \* the container processed last
  grew,             \* whether that container added a record
  found_any,        \* whether the probe found a container on the current page
  blocked,          \* detect_blocked(html) of the current page
  body,             \* local of the container loop: the body chain's value
  date_text,        \* local of the container loop: the date chain's value
  rating,           \* local of the container loop of scrape_g2
  result,           \* the returned list
  stop_reason,      \* which exit of the loop was taken
  attempts,         \* navigation attempts made for page_no
  fetched,          \* page numbers navigated to, in order
  eligible,         \* containers processed so far with a body and an in-window date
  ordered,          \* the dates of the containers processed so far are strictly descending
  last_d,           \* parsed date of the container processed last
  first_old,        \* page and place of the first container dated before start_d
  run,              \* 0, 3, 4: a single run; 1: the first run of two; 2: the second
  tape,             \* what the page source has served so far, by page number
  prev,             \* outcome of the first run
  output,           \* what the path "output" is: absent, a directory, a file
  exit_status,      \* <<>> while the process runs, then its exit status
  written           \* whether main has written the output file

vars == <<source, today, max_pages, start_d, end_d, pc, page_no, collected,
          stop_due_to_old, session, page, found_any, card_count, i, card, grew,
          blocked, body, date_text, rating, result, stop_reason, attempts,
          fetched, eligible, ordered, last_d, first_old, run, tape, prev,
          output, exit_status, written>>

\* ------------------------------------------------------------------- texts
\* A text is a sequence of Unicode code points.
Rep(c, n) == [k \in 1..n |-> c]

\* The printable ASCII characters, U+0020 to U+007E, in order; the place of
\* U+0060, which a string cannot hold, is kept by the empty string.
AsciiChars == <<
  " ", "!", "\"", "#", "$", "%", "&", "'", "(", ")", "*", "+", ",", "-", ".", "/",
  "0", "1", "2", "3", "4", "5", "6", "7", "8", "9", ":", ";", "<", "=", ">", "?",
  "@", "A", "B", "C", "D", "E", "F", "G", "H", "I", "J", "K", "L", "M", "N", "O",
  "P", "Q", "R", "S", "T", "U", "V", "W", "X", "Y", "Z", "[", "\\", "]", "^", "_",
  "", "a", "b", "c", "d", "e", "f", "g", "h", "i", "j", "k", "l", "m", "n", "o",
  "p", "q", "r", "s", "t", "u", "v", "w", "x", "y", "z", "{", "|", "}", "~" >>

\* ord(ch) of an ASCII character written as a string
Ord(ch) ==
  CASE ch = "\t" -> 9 [] ch = "\n" -> 10 [] ch = "\f" -> 12 [] ch = "\r" -> 13
    [] OTHER -> 31 + CHOOSE k \in 1..Len(AsciiChars) : AsciiChars[k] = ch

\* the text written as a sequence of ASCII characters
Str(s) == [k \in 1..Len(s) |-> Ord(s[k])]

InRanges(c, R) == \E k \in 1..Len(R) : R[k][1] <= c /\ c <= R[k][2]

\* The code points str.strip() removes (Py_UNICODE_ISSPACE): U+0009-U+000D,
\* U+001C-U+0020, U+0085, U+00A0, U+1680, U+2000-U+200A, U+2028, U+2029,
\* U+202F, U+205F, U+3000.
SpaceRanges == <<
  <<9, 13>>, <<28, 32>>, <<133, 133>>, <<160, 160>>, <<5760, 5760>>,
  <<8192, 8202>>, <<8232, 8233>>, <<8239, 8239>>, <<8287, 8287>>, <<12288, 12288>> >>

Whitespace == UNION {SpaceRanges[k][1]..SpaceRanges[k][2] : k \in 1..Len(SpaceRanges)}

IsSpace(c) == c \in Whitespace

RECURSIVE LStrip(_)
LStrip(t) == IF t # <<>> /\ IsSpace(Head(t)) THEN LStrip(Tail(t)) ELSE t

RECURSIVE RStrip(_)
RStrip(t) ==
  IF t # <<>> /\ IsSpace(t[Len(t)]) THEN RStrip(SubSeq(t, 1, Len(t) - 1)) ELSE t

\* str.strip()
strip(t) == RStrip(LStrip(t))

\* The simple lower-case mapping of CPython 3.11 (Unicode 14.0): a code
\* point c with a <= c <= b and (c - a) divisible by s maps to c + d, for
\* the entries <<a, b, s, d>>; every other code point maps to itself.
LowerRules == <<
  <<65, 90, 1, 32>>, <<192, 214, 1, 32>>, <<216, 222, 1, 32>>, <<256, 302, 2, 1>>,
  <<304, 304, 1, -199>>, <<306, 310, 2, 1>>, <<313, 327, 2, 1>>, <<330, 374, 2, 1>>, <<376, 376, 1, -121>>,
  <<377, 381, 2, 1>>, <<385, 385, 1, 210>>, <<386, 388, 2, 1>>, <<390, 390, 1, 206>>,
  <<391, 391, 1, 1>>, <<393, 394, 1, 205>>, <<395, 395, 1, 1>>, <<398, 398, 1, 79>>,
  <<399, 399, 1, 202>>, <<400, 400, 1, 203>>, <<401, 401, 1, 1>>, <<403, 403, 1, 205>>,
  <<404, 404, 1, 207>>, <<406, 406, 1, 211>>, <<407, 407, 1, 209>>, <<408, 408, 1, 1>>,
  <<412, 412, 1, 211>>, <<413, 413, 1, 213>>, <<415, 415, 1, 214>>, <<416, 420, 2, 1>>,
  <<422, 422, 1, 218>>, <<423, 423, 1, 1>>, <<425, 425, 1, 218>>, <<428, 428, 1, 1>>,
  <<430, 430, 1, 218>>, <<431, 431, 1, 1>>, <<433, 434, 1, 217>>, <<435, 437, 2, 1>>,
  <<439, 439, 1, 219>>, <<440, 440, 1, 1>>, <<444, 444, 1, 1>>, <<452, 452, 1, 2>>,
  <<453, 453, 1, 1>>, <<455, 455, 1, 2>>, <<456, 456, 1, 1>>, <<458, 458, 1, 2>>,
  <<459, 475, 2, 1>>, <<478, 494, 2, 1>>, <<497, 497, 1, 2>>, <<498, 500, 2, 1>>,
  <<502, 502, 1, -97>>, <<503, 503, 1, -56>>, <<504, 542, 2, 1>>, <<544, 544, 1, -130>>,
  <<546, 562, 2, 1>>, <<570, 570, 1, 10795>>, <<571, 571, 1, 1>>, <<573, 573, 1, -163>>,
  <<574, 574, 1, 10792>>, <<577, 577, 1, 1>>, <<579, 579, 1, -195>>, <<580, 580, 1, 69>>,
  <<581, 581, 1, 71>>, <<582, 590, 2, 1>>, <<880, 882, 2, 1>>, <<886, 886, 1, 1>>,
  <<895, 895, 1, 116>>, <<902, 902, 1, 38>>, <<904, 906, 1, 37>>, <<908, 908, 1, 64>>,
  <<910, 911, 1, 63>>, <<913, 929, 1, 32>>, <<931, 939, 1, 32>>, <<975, 975, 1, 8>>,
  <<984, 1006, 2, 1>>, <<1012, 1012, 1, -60>>, <<1015, 1015, 1, 1>>, <<1017, 1017, 1, -7>>,
  <<1018, 1018, 1, 1>>, <<1021, 1023, 1, -130>>, <<1024, 1039, 1, 80>>, <<1040, 1071, 1, 32>>,
  <<1120, 1152, 2, 1>>, <<1162, 1214, 2, 1>>, <<1216, 1216, 1, 15>>, <<1217, 1229, 2, 1>>,
  <<1232, 1326, 2, 1>>, <<1329, 1366, 1, 48>>, <<4256, 4293, 1, 7264>>, <<4295, 4295, 1, 7264>>,
  <<4301, 4301, 1, 7264>>, <<5024, 5103, 1, 38864>>, <<5104, 5109, 1, 8>>, <<7312, 7354, 1, -3008>>,
  <<7357, 7359, 1, -3008>>, <<7680, 7828, 2, 1>>, <<7838, 7838, 1, -7615>>, <<7840, 7934, 2, 1>>,
  <<7944, 7951, 1, -8>>, <<7960, 7965, 1, -8>>, <<7976, 7983, 1, -8>>, <<7992, 7999, 1, -8>>,
  <<8008, 8013, 1, -8>>, <<8025, 8031, 2, -8>>, <<8040, 8047, 1, -8>>, <<8072, 8079, 1, -8>>,
  <<8088, 8095, 1, -8>>, <<8104, 8111, 1, -8>>, <<8120, 8121, 1, -8>>, <<8122, 8123, 1, -74>>,
  <<8124, 8124, 1, -9>>, <<8136, 8139, 1, -86>>, <<8140, 8140, 1, -9>>, <<8152, 8153, 1, -8>>,
  <<8154, 8155, 1, -100>>, <<8168, 8169, 1, -8>>, <<8170, 8171, 1, -112>>, <<8172, 8172, 1, -7>>,
  <<8184, 8185, 1, -128>>, <<8186, 8187, 1, -126>>, <<8188, 8188, 1, -9>>, <<8486, 8486, 1, -7517>>,
  <<8490, 8490, 1, -8383>>, <<8491, 8491, 1, -8262>>, <<8498, 8498, 1, 28>>, <<8544, 8559, 1, 16>>,
  <<8579, 8579, 1, 1>>, <<9398, 9423, 1, 26>>, <<11264, 11311, 1, 48>>, <<11360, 11360, 1, 1>>,
  <<11362, 11362, 1, -10743>>, <<11363, 11363, 1, -3814>>, <<11364, 11364, 1, -10727>>, <<11367, 11371, 2, 1>>,
  <<11373, 11373, 1, -10780>>, <<11374, 11374, 1, -10749>>, <<11375, 11375, 1, -10783>>, <<11376, 11376, 1, -10782>>,
  <<11378, 11378, 1, 1>>, <<11381, 11381, 1, 1>>, <<11390, 11391, 1, -10815>>, <<11392, 11490, 2, 1>>,
  <<11499, 11501, 2, 1>>, <<11506, 11506, 1, 1>>, <<42560, 42604, 2, 1>>, <<42624, 42650, 2, 1>>,
  <<42786, 42798, 2, 1>>, <<42802, 42862, 2, 1>>, <<42873, 42875, 2, 1>>, <<42877, 42877, 1, -35332>>,
  <<42878, 42886, 2, 1>>, <<42891, 42891, 1, 1>>, <<42893, 42893, 1, -42280>>, <<42896, 42898, 2, 1>>,
  <<42902, 42920, 2, 1>>, <<42922, 42922, 1, -42308>>, <<42923, 42923, 1, -42319>>, <<42924, 42924, 1, -42315>>,
  <<42925, 42925, 1, -42305>>, <<42926, 42926, 1, -42308>>, <<42928, 42928, 1, -42258>>, <<42929, 42929, 1, -42282>>,
  <<42930, 42930, 1, -42261>>, <<42931, 42931, 1, 928>>, <<42932, 42946, 2, 1>>, <<42948, 42948, 1, -48>>,
  <<42949, 42949, 1, -42307>>, <<42950, 42950, 1, -35384>>, <<42951, 42953, 2, 1>>, <<42960, 42960, 1, 1>>,
  <<42966, 42968, 2, 1>>, <<42997, 42997, 1, 1>>, <<65313, 65338, 1, 32>>, <<66560, 66599, 1, 40>>,
  <<66736, 66771, 1, 40>>, <<66928, 66938, 1, 39>>, <<66940, 66954, 1, 39>>, <<66956, 66962, 1, 39>>,
  <<66964, 66965, 1, 39>>, <<68736, 68786, 1, 64>>, <<71840, 71871, 1, 32>>, <<93760, 93791, 1, 32>>,
  <<125184, 125217, 1, 34>> >>

\* The case-ignorable code points (Unicode 14.0).
CaseIgnorableRanges == <<
  <<39, 39>>, <<46, 46>>, <<58, 58>>, <<94, 94>>, <<96, 96>>,
  <<168, 168>>, <<173, 173>>, <<175, 175>>, <<180, 180>>, <<183, 184>>,
  <<688, 879>>, <<884, 885>>, <<890, 890>>, <<900, 901>>, <<903, 903>>,
  <<1155, 1161>>, <<1369, 1369>>, <<1375, 1375>>, <<1425, 1469>>, <<1471, 1471>>,
  <<1473, 1474>>, <<1476, 1477>>, <<1479, 1479>>, <<1524, 1524>>, <<1536, 1541>>,
  <<1552, 1562>>, <<1564, 1564>>, <<1600, 1600>>, <<1611, 1631>>, <<1648, 1648>>,
  <<1750, 1757>>, <<1759, 1768>>, <<1770, 1773>>, <<1807, 1807>>, <<1809, 1809>>,
  <<1840, 1866>>, <<1958, 1968>>, <<2027, 2037>>, <<2042, 2042>>, <<2045, 2045>>,
  <<2070, 2093>>, <<2137, 2139>>, <<2184, 2184>>, <<2192, 2193>>, <<2200, 2207>>,
  <<2249, 2306>>, <<2362, 2362>>, <<2364, 2364>>, <<2369, 2376>>, <<2381, 2381>>,
  <<2385, 2391>>, <<2402, 2403>>, <<2417, 2417>>, <<2433, 2433>>, <<2492, 2492>>,
  <<2497, 2500>>, <<2509, 2509>>, <<2530, 2531>>, <<2558, 2558>>, <<2561, 2562>>,
  <<2620, 2620>>, <<2625, 2626>>, <<2631, 2632>>, <<2635, 2637>>, <<2641, 2641>>,
  <<2672, 2673>>, <<2677, 2677>>, <<2689, 2690>>, <<2748, 2748>>, <<2753, 2757>>,
  <<2759, 2760>>, <<2765, 2765>>, <<2786, 2787>>, <<2810, 2815>>, <<2817, 2817>>,
  <<2876, 2876>>, <<2879, 2879>>, <<2881, 2884>>, <<2893, 2893>>, <<2901, 2902>>,
  <<2914, 2915>>, <<2946, 2946>>, <<3008, 3008>>, <<3021, 3021>>, <<3072, 3072>>,
  <<3076, 3076>>, <<3132, 3132>>, <<3134, 3136>>, <<3142, 3144>>, <<3146, 3149>>,
  <<3157, 3158>>, <<3170, 3171>>, <<3201, 3201>>, <<3260, 3260>>, <<3263, 3263>>,
  <<3270, 3270>>, <<3276, 3277>>, <<3298, 3299>>, <<3328, 3329>>, <<3387, 3388>>,
  <<3393, 3396>>, <<3405, 3405>>, <<3426, 3427>>, <<3457, 3457>>, <<3530, 3530>>,
  <<3538, 3540>>, <<3542, 3542>>, <<3633, 3633>>, <<3636, 3642>>, <<3654, 3662>>,
  <<3761, 3761>>, <<3764, 3772>>, <<3782, 3782>>, <<3784, 3789>>, <<3864, 3865>>,
  <<3893, 3893>>, <<3895, 3895>>, <<3897, 3897>>, <<3953, 3966>>, <<3968, 3972>>,
  <<3974, 3975>>, <<3981, 3991>>, <<3993, 4028>>, <<4038, 4038>>, <<4141, 4144>>,
  <<4146, 4151>>, <<4153, 4154>>, <<4157, 4158>>, <<4184, 4185>>, <<4190, 4192>>,
  <<4209, 4212>>, <<4226, 4226>>, <<4229, 4230>>, <<4237, 4237>>, <<4253, 4253>>,
  <<4348, 4348>>, <<4957, 4959>>, <<5906, 5908>>, <<5938, 5939>>, <<5970, 5971>>,
  <<6002, 6003>>, <<6068, 6069>>, <<6071, 6077>>, <<6086, 6086>>, <<6089, 6099>>,
  <<6103, 6103>>, <<6109, 6109>>, <<6155, 6159>>, <<6211, 6211>>, <<6277, 6278>>,
  <<6313, 6313>>, <<6432, 6434>>, <<6439, 6440>>, <<6450, 6450>>, <<6457, 6459>>,
  <<6679, 6680>>, <<6683, 6683>>, <<6742, 6742>>, <<6744, 6750>>, <<6752, 6752>>,
  <<6754, 6754>>, <<6757, 6764>>, <<6771, 6780>>, <<6783, 6783>>, <<6823, 6823>>,
  <<6832, 6862>>, <<6912, 6915>>, <<6964, 6964>>, <<6966, 6970>>, <<6972, 6972>>,
  <<6978, 6978>>, <<7019, 7027>>, <<7040, 7041>>, <<7074, 7077>>, <<7080, 7081>>,
  <<7083, 7085>>, <<7142, 7142>>, <<7144, 7145>>, <<7149, 7149>>, <<7151, 7153>>,
  <<7212, 7219>>, <<7222, 7223>>, <<7288, 7293>>, <<7376, 7378>>, <<7380, 7392>>,
  <<7394, 7400>>, <<7405, 7405>>, <<7412, 7412>>, <<7416, 7417>>, <<7468, 7530>>,
  <<7544, 7544>>, <<7579, 7679>>, <<8125, 8125>>, <<8127, 8129>>, <<8141, 8143>>,
  <<8157, 8159>>, <<8173, 8175>>, <<8189, 8190>>, <<8203, 8207>>, <<8216, 8217>>,
  <<8228, 8228>>, <<8231, 8231>>, <<8234, 8238>>, <<8288, 8292>>, <<8294, 8303>>,
  <<8305, 8305>>, <<8319, 8319>>, <<8336, 8348>>, <<8400, 8432>>, <<11388, 11389>>,
  <<11503, 11505>>, <<11631, 11631>>, <<11647, 11647>>, <<11744, 11775>>, <<11823, 11823>>,
  <<12293, 12293>>, <<12330, 12333>>, <<12337, 12341>>, <<12347, 12347>>, <<12441, 12446>>,
  <<12540, 12542>>, <<40981, 40981>>, <<42232, 42237>>, <<42508, 42508>>, <<42607, 42610>>,
  <<42612, 42621>>, <<42623, 42623>>, <<42652, 42655>>, <<42736, 42737>>, <<42752, 42785>>,
  <<42864, 42864>>, <<42888, 42890>>, <<42994, 42996>>, <<43000, 43001>>, <<43010, 43010>>,
  <<43014, 43014>>, <<43019, 43019>>, <<43045, 43046>>, <<43052, 43052>>, <<43204, 43205>>,
  <<43232, 43249>>, <<43263, 43263>>, <<43302, 43309>>, <<43335, 43345>>, <<43392, 43394>>,
  <<43443, 43443>>, <<43446, 43449>>, <<43452, 43453>>, <<43471, 43471>>, <<43493, 43494>>,
  <<43561, 43566>>, <<43569, 43570>>, <<43573, 43574>>, <<43587, 43587>>, <<43596, 43596>>,
  <<43632, 43632>>, <<43644, 43644>>, <<43696, 43696>>, <<43698, 43700>>, <<43703, 43704>>,
  <<43710, 43711>>, <<43713, 43713>>, <<43741, 43741>>, <<43756, 43757>>, <<43763, 43764>>,
  <<43766, 43766>>, <<43867, 43871>>, <<43881, 43883>>, <<44005, 44005>>, <<44008, 44008>>,
  <<44013, 44013>>, <<64286, 64286>>, <<64434, 64450>>, <<65024, 65039>>, <<65043, 65043>>,
  <<65056, 65071>>, <<65106, 65106>>, <<65109, 65109>>, <<65279, 65279>>, <<65287, 65287>>,
  <<65294, 65294>>, <<65306, 65306>>, <<65342, 65342>>, <<65344, 65344>>, <<65392, 65392>>,
  <<65438, 65439>>, <<65507, 65507>>, <<65529, 65531>>, <<66045, 66045>>, <<66272, 66272>>,
  <<66422, 66426>>, <<67456, 67461>>, <<67463, 67504>>, <<67506, 67514>>, <<68097, 68099>>,
  <<68101, 68102>>, <<68108, 68111>>, <<68152, 68154>>, <<68159, 68159>>, <<68325, 68326>>,
  <<68900, 68903>>, <<69291, 69292>>, <<69446, 69456>>, <<69506, 69509>>, <<69633, 69633>>,
  <<69688, 69702>>, <<69744, 69744>>, <<69747, 69748>>, <<69759, 69761>>, <<69811, 69814>>,
  <<69817, 69818>>, <<69821, 69821>>, <<69826, 69826>>, <<69837, 69837>>, <<69888, 69890>>,
  <<69927, 69931>>, <<69933, 69940>>, <<70003, 70003>>, <<70016, 70017>>, <<70070, 70078>>,
  <<70089, 70092>>, <<70095, 70095>>, <<70191, 70193>>, <<70196, 70196>>, <<70198, 70199>>,
  <<70206, 70206>>, <<70367, 70367>>, <<70371, 70378>>, <<70400, 70401>>, <<70459, 70460>>,
  <<70464, 70464>>, <<70502, 70508>>, <<70512, 70516>>, <<70712, 70719>>, <<70722, 70724>>,
  <<70726, 70726>>, <<70750, 70750>>, <<70835, 70840>>, <<70842, 70842>>, <<70847, 70848>>,
  <<70850, 70851>>, <<71090, 71093>>, <<71100, 71101>>, <<71103, 71104>>, <<71132, 71133>>,
  <<71219, 71226>>, <<71229, 71229>>, <<71231, 71232>>, <<71339, 71339>>, <<71341, 71341>>,
  <<71344, 71349>>, <<71351, 71351>>, <<71453, 71455>>, <<71458, 71461>>, <<71463, 71467>>,
  <<71727, 71735>>, <<71737, 71738>>, <<71995, 71996>>, <<71998, 71998>>, <<72003, 72003>>,
  <<72148, 72151>>, <<72154, 72155>>, <<72160, 72160>>, <<72193, 72202>>, <<72243, 72248>>,
  <<72251, 72254>>, <<72263, 72263>>, <<72273, 72278>>, <<72281, 72283>>, <<72330, 72342>>,
  <<72344, 72345>>, <<72752, 72758>>, <<72760, 72765>>, <<72767, 72767>>, <<72850, 72871>>,
  <<72874, 72880>>, <<72882, 72883>>, <<72885, 72886>>, <<73009, 73014>>, <<73018, 73018>>,
  <<73020, 73021>>, <<73023, 73029>>, <<73031, 73031>>, <<73104, 73105>>, <<73109, 73109>>,
  <<73111, 73111>>, <<73459, 73460>>, <<78896, 78904>>, <<92912, 92916>>, <<92976, 92982>>,
  <<92992, 92995>>, <<94031, 94031>>, <<94095, 94111>>, <<94176, 94177>>, <<94179, 94180>>,
  <<110576, 110579>>, <<110581, 110587>>, <<110589, 110590>>, <<113821, 113822>>, <<113824, 113827>>,
  <<118528, 118573>>, <<118576, 118598>>, <<119143, 119145>>, <<119155, 119170>>, <<119173, 119179>>,
  <<119210, 119213>>, <<119362, 119364>>, <<121344, 121398>>, <<121403, 121452>>, <<121461, 121461>>,
  <<121476, 121476>>, <<121499, 121503>>, <<121505, 121519>>, <<122880, 122886>>, <<122888, 122904>>,
  <<122907, 122913>>, <<122915, 122916>>, <<122918, 122922>>, <<123184, 123197>>, <<123566, 123566>>,
  <<123628, 123631>>, <<125136, 125142>>, <<125252, 125259>>, <<127995, 127999>>, <<917505, 917505>>,
  <<917536, 917631>>, <<917760, 917999>> >>

\* The cased code points that are not case-ignorable (Unicode 14.0).
CasedRanges == <<
  <<65, 90>>, <<97, 122>>, <<170, 170>>, <<181, 181>>, <<186, 186>>,
  <<192, 214>>, <<216, 246>>, <<248, 442>>, <<444, 447>>, <<452, 659>>,
  <<661, 687>>, <<880, 883>>, <<886, 887>>, <<891, 893>>, <<895, 895>>,
  <<902, 902>>, <<904, 906>>, <<908, 908>>, <<910, 929>>, <<931, 1013>>,
  <<1015, 1153>>, <<1162, 1327>>, <<1329, 1366>>, <<1376, 1416>>, <<4256, 4293>>,
  <<4295, 4295>>, <<4301, 4301>>, <<4304, 4346>>, <<4349, 4351>>, <<5024, 5109>>,
  <<5112, 5117>>, <<7296, 7304>>, <<7312, 7354>>, <<7357, 7359>>, <<7424, 7467>>,
  <<7531, 7543>>, <<7545, 7578>>, <<7680, 7957>>, <<7960, 7965>>, <<7968, 8005>>,
  <<8008, 8013>>, <<8016, 8023>>, <<8025, 8025>>, <<8027, 8027>>, <<8029, 8029>>,
  <<8031, 8061>>, <<8064, 8116>>, <<8118, 8124>>, <<8126, 8126>>, <<8130, 8132>>,
  <<8134, 8140>>, <<8144, 8147>>, <<8150, 8155>>, <<8160, 8172>>, <<8178, 8180>>,
  <<8182, 8188>>, <<8450, 8450>>, <<8455, 8455>>, <<8458, 8467>>, <<8469, 8469>>,
  <<8473, 8477>>, <<8484, 8484>>, <<8486, 8486>>, <<8488, 8488>>, <<8490, 8493>>,
  <<8495, 8500>>, <<8505, 8505>>, <<8508, 8511>>, <<8517, 8521>>, <<8526, 8526>>,
  <<8544, 8575>>, <<8579, 8580>>, <<9398, 9449>>, <<11264, 11387>>, <<11390, 11492>>,
  <<11499, 11502>>, <<11506, 11507>>, <<11520, 11557>>, <<11559, 11559>>, <<11565, 11565>>,
  <<42560, 42605>>, <<42624, 42651>>, <<42786, 42863>>, <<42865, 42887>>, <<42891, 42894>>,
  <<42896, 42954>>, <<42960, 42961>>, <<42963, 42963>>, <<42965, 42969>>, <<42997, 42998>>,
  <<43002, 43002>>, <<43824, 43866>>, <<43872, 43880>>, <<43888, 43967>>, <<64256, 64262>>,
  <<64275, 64279>>, <<65313, 65338>>, <<65345, 65370>>, <<66560, 66639>>, <<66736, 66771>>,
  <<66776, 66811>>, <<66928, 66938>>, <<66940, 66954>>, <<66956, 66962>>, <<66964, 66965>>,
  <<66967, 66977>>, <<66979, 66993>>, <<66995, 67001>>, <<67003, 67004>>, <<68736, 68786>>,
  <<68800, 68850>>, <<71840, 71903>>, <<93760, 93823>>, <<119808, 119892>>, <<119894, 119964>>,
  <<119966, 119967>>, <<119970, 119970>>, <<119973, 119974>>, <<119977, 119980>>, <<119982, 119993>>,
  <<119995, 119995>>, <<119997, 120003>>, <<120005, 120069>>, <<120071, 120074>>, <<120077, 120084>>,
  <<120086, 120092>>, <<120094, 120121>>, <<120123, 120126>>, <<120128, 120132>>, <<120134, 120134>>,
  <<120138, 120144>>, <<120146, 120485>>, <<120488, 120512>>, <<120514, 120538>>, <<120540, 120570>>,
  <<120572, 120596>>, <<120598, 120628>>, <<120630, 120654>>, <<120656, 120686>>, <<120688, 120712>>,
  <<120714, 120744>>, <<120746, 120770>>, <<120772, 120779>>, <<122624, 122633>>, <<122635, 122654>>,
  <<125184, 125251>>, <<127280, 127305>>, <<127312, 127337>>, <<127344, 127369>> >>

LowerRuleOf(c, k) ==
  /\ LowerRules[k][1] <= c /\ c <= LowerRules[k][2]
  /\ (c - LowerRules[k][1]) % LowerRules[k][3] = 0

\* The simple lower-case mapping of one code point; ASCII takes the short
\* way.
ToLower(c) ==
  IF c < 128 THEN (IF 65 <= c /\ c <= 90 THEN c + 32 ELSE c)
  ELSE IF \E k \in 1..Len(LowerRules) : LowerRuleOf(c, k)
    THEN c + LowerRules[CHOOSE k \in 1..Len(LowerRules) : LowerRuleOf(c, k)][4]
  ELSE c

\* The lower-case form of a code point standing alone, chr(c).lower(): the
\* simple mapping, but for U+0130, which gives U+0069 U+0307.
LowerChar(c) == IF c = 304 THEN <<105, 775>> ELSE <<ToLower(c)>>

CaseIgnorable(c) == InRanges(c, CaseIgnorableRanges)
Cased(c) == InRanges(c, CasedRanges)

\* A capital sigma at position k is final: the nearest code point before it
\* that is not case-ignorable is cased, and the nearest such code point
\* after it, if any, is not.
FinalSigma(t, k) ==
  LET before == {j \in 1..(k - 1) : ~CaseIgnorable(t[j])}
      after == {j \in (k + 1)..Len(t) : ~CaseIgnorable(t[j])}
      last == CHOOSE j \in before : \A m \in before : m <= j
      first == CHOOSE j \in after : \A m \in after : j <= m
  IN  /\ before # {}
      /\ Cased(t[last])
      /\ (after = {} \/ ~Cased(t[first]))

\* What position k of t becomes: a final U+03A3 gives U+03C2, every other
\* code point what it gives standing alone.
LowerAt(t, k) ==
  IF t[k] = 931 /\ FinalSigma(t, k) THEN <<962>> ELSE LowerChar(t[k])

RECURSIVE LowerFrom(_, _)
LowerFrom(t, k) == IF k > Len(t) THEN <<>> ELSE LowerAt(t, k) \o LowerFrom(t, k + 1)

\* str.lower()
lower(t) == LowerFrom(t, 1)

\* n in t, for strings
Contains(t, n) ==
  \E k \in 0..(Len(t) - Len(n)) : SubSeq(t, k + 1, k + Len(n)) = n

needles == <<
  Str(<<"c","a","p","t","c","h","a">>),
  Str(<<"A","c","c","e","s","s"," ","D","e","n","i","e","d">>),
  Str(<<"u","n","u","s","u","a","l"," ","t","r","a","f","f","i","c">>),
  Str(<<"v","e","r","i","f","y"," ","y","o","u"," ","a","r","e"," ","h","u","m","a","n">>),
  Str(<<"r","o","b","o","t">>),
  Str(<<"b","l","o","c","k","e","d">>),
  Str(<<"C","l","o","u","d","f","l","a","r","e">>),
  Str(<<"P","l","e","a","s","e"," ","e","n","a","b","l","e"," ","c","o","o","k","i","e","s">>) >>

\* low = html.lower(); any(n in low for n in needles)
detect_blocked_needles_as_written(html) ==
  LET low == lower(html)
  IN  \E k \in 1..Len(needles) : Contains(low, needles[k])

\* the search without lower()
detect_blocked_case_sensitive(html) ==
  \E k \in 1..Len(needles) : Contains(html, needles[k])

detect_blocked(html) ==
  LET low == lower(html)
  IN  \E k \in 1..Len(needles) : Contains(low, lower(needles[k]))

\* ------------------------------------------------------------------- dates
NoDate == -1
Dates == 0..MaxDate

\* A date is a day number; day 0 is the first day of the year the sample
\* texts are written in, a leap year, and the clock stands in that year
\* (today = 0) or in the year after it (today = 1).
Years == 0..1

\* The day written d-th of the leap year, read in year y. The year after
\* has 365 days and no 29 February (day 59): that day is no date there and
\* the parser raises, and the days after it come one day number earlier.
InYear(d, y) ==
  IF y = 0 THEN d
  ELSE IF d < 59 THEN d + 366
  ELSE IF d = 59 THEN NoDate
  ELSE d + 365

\* The text of a date element, stripped, by what parse_any_date makes of it:
\*   prefix  "spaced": it holds "Reviewed on" followed by white space,
\*           "bare": it holds "Reviewed on" with no white space after it
\*           (so when the text ends there), "none": it does not hold it;
\*   junk    it holds words that are no date;
\*   date    the day and month written in it, NoDate when there is none;
\*   year    whether the date is written with its year.
EmptyText == [prefix |-> "none", junk |-> FALSE, date |-> NoDate, year |-> FALSE]

\* re.sub(r"Reviewed on\s+", "", text.strip(), flags=re.IGNORECASE).strip():
\* the phrase goes together with white space after it, and stays without.
StripReviewedOn(text) ==
  IF text.prefix = "spaced" THEN [text EXCEPT !.prefix = "none"] ELSE text

\* parse_date(cleaned, fuzzy=True).date(): words that are no date are passed
\* over; a text without a date raises; what the text leaves out is taken
\* from the clock (default = today), so a date written without its year
\* falls in the year of the run. The sample texts leave out the year or
\* nothing.
parse_date(cleaned, now) ==
  IF cleaned.date = NoDate THEN NoDate
  ELSE IF cleaned.year THEN cleaned.date
  ELSE InYear(cleaned.date, now)

\* now: the year the clock stands in when the text is parsed
parse_any_date(text, now) ==
  IF text = EmptyText THEN NoDate
  ELSE LET cleaned == StripReviewedOn(text)
       IN  parse_date(cleaned, now)   \* NoDate when the parser raises

\* the test without its upper end
in_range_no_upper(d, s, e) == d # NoDate /\ s <= d

in_range(d, s, e) == d # NoDate /\ s <= d /\ d <= e

\* date.isoformat()
isoformat(d) == [iso |-> d]


\* -------------------------------------------------------- element lookups
\* The outcome of locator(sel).first.inner_text(): a text, or a failure
\* (no such element, timeout).
Fail == [ok |-> FALSE, text |-> <<>>]
Got(t) == [ok |-> TRUE, text |-> t]
FailDate == [ok |-> FALSE, text |-> EmptyText]
GotDate(t) == [ok |-> TRUE, text |-> t]

body_selectors == <<"div[itemprop='reviewBody']", "[data-testid*='review-text']",
                    "div[class*='reviewBody']", "div[class*='review-body']", "p">>
date_selectors == <<"time", "span:has-text('Reviewed on')", "div:has-text('Reviewed on')">>
rating_selectors == <<"span[itemprop='ratingValue']", "meta[itemprop='ratingValue']">>

tr_body_selectors == <<"p", "div[class*='review']", "div[class*='content']">>
tr_date_selectors == <<"time", "span:has-text(', 20')", "div:has-text(', 20')">>

BodySelectorSet == {body_selectors[k] : k \in 1..Len(body_selectors)}
                     \cup {tr_body_selectors[k] : k \in 1..Len(tr_body_selectors)}
DateSelectorSet == {date_selectors[k] : k \in 1..Len(date_selectors)}
                     \cup {tr_date_selectors[k] : k \in 1..Len(tr_date_selectors)}

\* if t
BodyAcceptable_any(t) == t # <<>>

\* if t and len(t) >= 20
BodyAcceptable_from_min(t) == t # <<>> /\ Len(t) >= MinBodyLen

\* if t and len(t) > 20
BodyAcceptable(t) == t # <<>> /\ Len(t) > MinBodyLen

\* t = card.locator(sel).first.inner_text(timeout=800).strip()
BodyText(o) == strip(o.text)

\* a chain that goes through all selectors and keeps the last acceptable text
RECURSIVE BodyChain_last(_, _, _)
BodyChain_last(c, sels, k) ==
  IF k > Len(sels) THEN Fail
  ELSE LET o == c.body[sels[k]]
           rest == BodyChain_last(c, sels, k + 1)
       IN  IF rest.ok THEN rest
           ELSE IF o.ok /\ BodyAcceptable(BodyText(o)) THEN Got(BodyText(o))
           ELSE Fail

\* The body chain: the first selector, in list order, whose text is acceptable.
RECURSIVE BodyChain(_, _, _)
BodyChain(c, sels, k) ==
  IF k > Len(sels) THEN Fail
  ELSE LET o == c.body[sels[k]]
       IN  IF o.ok /\ BodyAcceptable(BodyText(o)) THEN Got(BodyText(o))
           ELSE BodyChain(c, sels, k + 1)

\* The date chain: the first selector, in list order, whose text is non-empty.
RECURSIVE DateChain(_, _, _)
DateChain(c, sels, k) ==
  IF k > Len(sels) THEN FailDate
  ELSE LET o == c.date[sels[k]]
       IN  IF o.ok /\ o.text # EmptyText THEN GotDate(o.text)
           ELSE DateChain(c, sels, k + 1)

\* d = parse_any_date(date_text or "")
ParsedDate(dt) ==
  parse_any_date(IF dt.ok THEN dt.text ELSE EmptyText, today)

\* title = card.locator("h3").first.inner_text(timeout=500).strip(), "" on failure
Title(c) == IF c.title.ok THEN strip(c.title.text) ELSE <<>>

\* A rating element is absent (count() == 0), raises on access, or has a
\* value: a text, or None (a meta element without a content attribute).
\* "meta" in sel
IsMeta(sel) == sel = "meta[itemprop='ratingValue']"

\* rating = loc.get_attribute("content")  or  loc.inner_text(timeout=500).strip()
RatingRead(sel, el) ==
  IF IsMeta(sel) \/ ~el.val.ok THEN el.val ELSE Got(strip(el.val.text))

\* The rating chain of scrape_g2. `rating` keeps the value assigned last, so
\* an empty text of the span stays when the meta element gives nothing.
RECURSIVE RatingChain(_, _, _)
RatingChain(c, k, cur) ==
  IF k > Len(rating_selectors) THEN cur
  ELSE LET sel == rating_selectors[k]
           el == c.rating[sel]
           r == IF el.kind = "value" THEN RatingRead(sel, el) ELSE cur
       IN  IF el.kind = "value" /\ r.ok /\ r.text # <<>> THEN r
           ELSE RatingChain(c, k + 1, r)

\* if d and d <= start_d
TooOld_inclusive(d, s) == d # NoDate /\ d <= s

\* if d is None or d < start_d
TooOld_or_missing(d, s) == d = NoDate \/ d < s

\* if d and d < start_d
TooOld(d, s) == d # NoDate /\ d < s

\* the date-boundary test placed after a test for the body
OldTrigger_needs_body(b, d, s) == b.ok /\ TooOld(d, s)

\* The date-boundary test of scrape_g2 stands before the title, the rating
\* and the acceptance test: the body found plays no part in it.
OldTrigger(b, d, s) == TooOld(d, s)

\* break: the rest of the page is left out
Continue_as_break(k, n) == n

\* continue: the loop goes on with the container after the k-th of n
Continue(k, n) == k + 1

\* if body and in_range(d, start_d, end_d)
Accepted(b, d, s, e) == b.ok /\ b.text # <<>> /\ in_range(d, s, e)

G2Record(c, b, d) ==
  [source |-> "G2", title |-> Title(c), review |-> b.text,
   date |-> isoformat(d), rating |-> RatingChain(c, 1, Fail)]

TRRecord(c, b, d) ==
  [source |-> "TrustRadius", title |-> Title(c), review |-> b.text,
   date |-> isoformat(d), rating |-> Fail]

\* ----------------------------------------------------------------- session
\* The browser and the context of a run, by what the program has done with
\* them: nothing yet, opened, closed.
NoSession == [browser |-> "none", context |-> "none"]

\* p.chromium.launch(...), browser.new_context(...), context.new_page()
LaunchSession == [browser |-> "open", context |-> "open"]

\* context.close(); browser.close()
CloseSession(s) == [s EXCEPT !.context = "closed", !.browser = "closed"]

\* --------------------------------------------------- the page source
\* Sample texts, around the minimum body length, between white space of
\* several kinds: U+1680, U+00A0, U+3000, U+2003, U+0085, U+2028.
\* 21 ogham space marks and a carriage return: nothing is left after strip()
BlankText == Rep(5760, MinBodyLen + 1) \o Str(<<"\r">>)
GoodText == <<160>> \o Rep(Ord("x"), MinBodyLen + 1) \o Str(<<" ">>)
EdgeText == <<5760>> \o Rep(Ord("x"), MinBodyLen) \o <<5760>>
PaddedText == <<12288>> \o Rep(Ord("x"), MinBodyLen - 1) \o <<8195>>

BodyAt(sel, t) == [s \in BodySelectorSet |-> IF s = sel THEN Got(t) ELSE Fail]
NoBodyElems == [s \in BodySelectorSet |-> Fail]

\* "2024-01-02"; "n/a"; "Reviewed on 2024-01-02"; "Reviewed on" and nothing
\* more; "Reviewed on:2024-01-02"; "Jan 2"
TimeText(d) == [prefix |-> "none", junk |-> FALSE, date |-> d, year |-> TRUE]
JunkText == [prefix |-> "none", junk |-> TRUE, date |-> NoDate, year |-> FALSE]
ReviewedOnText(d) == [prefix |-> "spaced", junk |-> FALSE, date |-> d, year |-> TRUE]
BarePrefixText == [prefix |-> "bare", junk |-> FALSE, date |-> NoDate, year |-> FALSE]
BarePrefixDate(d) == [prefix |-> "bare", junk |-> FALSE, date |-> d, year |-> TRUE]
NoYearText(d) == [prefix |-> "none", junk |-> FALSE, date |-> d, year |-> FALSE]

DateAt(sel, t) == [s \in DateSelectorSet |-> IF s = sel THEN GotDate(t) ELSE FailDate]
NoDateElems == [s \in DateSelectorSet |-> FailDate]
\* an empty <time> element, and a span reading "Reviewed on <date>"
ReviewedOnElems(d) ==
  [s \in DateSelectorSet |->
     IF s = "time" THEN GotDate(EmptyText)
     ELSE IF s = "span:has-text('Reviewed on')" THEN GotDate(ReviewedOnText(d))
     ELSE FailDate]

SpanRating ==
  [s \in {rating_selectors[k] : k \in 1..Len(rating_selectors)} |->
     IF IsMeta(s) THEN [kind |-> "absent", val |-> Fail]
     ELSE [kind |-> "value", val |-> Got(Str(<<"4">>))]]

MkCard(b, d) == [body |-> b, date |-> d, title |-> Got(Str(<<"T">>)), rating |-> SpanRating]

NoCard == [body |-> NoBodyElems, date |-> NoDateElems, title |-> Fail, rating |-> SpanRating]

BodySamples == {NoBodyElems, BodyAt("p", GoodText), BodyAt("p", EdgeText),
                BodyAt("p", PaddedText)}
DateSamples == {NoDateElems, DateAt("time", JunkText), ReviewedOnElems(1),
                DateAt("time", BarePrefixText)}
                 \cup {DateAt("time", TimeText(d)) : d \in Dates}

Cards == {MkCard(BodyAt("p", GoodText), d) : d \in DateSamples}
           \cup {MkCard(b, DateAt("time", TimeText(d))) : b \in BodySamples, d \in {0, 2}}

CleanHtml == Str(<<"r","e","v","i","e","w","s">>)
DeniedHtml == Str(<<"A","c","c","e","s","s"," ","D","e","n","i","e","d">>)
TrafficHtml == Str(<<"U","N","U","S","U","A","L"," ","t","r","a","f","f","i","c","!">>)
Htmls == {CleanHtml, DeniedHtml, TrafficHtml}

\* What the program has read of the document the browser holds: its markup
\* (page.content()), the number of elements the container selectors match
\* (cards.count()) and, for the claims, the containers beyond the cap, which
\* the program never looks at; top is the date above the page's first
\* container where the containers are dated in descending order.
NoPage == [html |-> <<>>, n |-> 0, top |-> 0, rest |-> <<>>]

\* The selectors of the probe; together they are the cards locator.
candidate_waits == <<"div.paper", "div[data-testid*='review']", "article",
                     "[itemprop='review']", "div[class*='review']">>

\* What page.locator(sel).count() gives for each selector of the probe: no
\* element, some elements, or an exception.
NoneProbe == [k \in 1..Len(candidate_waits) |-> "none"]
SomeProbe == [k \in 1..Len(candidate_waits) |-> "some"]
RaiseProbe == [k \in 1..Len(candidate_waits) |-> "raise"]
LateProbe ==
  [k \in 1..Len(candidate_waits) |->
     IF k = 1 THEN "raise" ELSE IF k = 3 THEN "some" ELSE "none"]
ProbeSamples == {NoneProbe, SomeProbe, RaiseProbe, LateProbe}

\* The outcome of cards.count(): a number, or an exception.
CountOf(k, t, r) == [ok |-> TRUE, n |-> k, top |-> t, rest |-> r]
CountRaise == [ok |-> FALSE, n |-> 0, top |-> 0, rest |-> <<>>]

NavOutcomes == {"ok", "timeout", "error"}

Windows == {<<s, e>> : s \in 1..2, e \in 1..2}
Sources == {"g2", "trustradius"}

\* The page source, by the value of run.
\*   0  the sample site. Every read of the document is served anew: the
\*      document may change between the probe, content() and count(), and
\*      a read may raise.
\*   1, 2  two runs over the same static pages: `tape` records what the
\*      first run (run = 1) is served, the second run (run = 2) is served
\*      the same, and what the first run never asked for is chosen freely.
\*      No read raises.
\*   3  single containers with many elements, and a page with more
\*      containers than the cap.
\*   4  pages whose containers are dated in strictly descending order, one
\*      day apart, some with more containers than the cap.
EmptyEntry == [nav |-> <<>>, dom |-> <<>>, cards |-> <<>>]
Entry(n) == IF n <= Len(tape) THEN tape[n] ELSE EmptyEntry
Put(n, e) == IF run \notin {1, 2} THEN tape
             ELSE IF n <= Len(tape) THEN [tape EXCEPT ![n] = e] ELSE Append(tape, e)
PutNav(n, k, o) ==
  IF k <= Len(Entry(n).nav) THEN tape
  ELSE Put(n, [Entry(n) EXCEPT !.nav = Append(@, o)])
PutDom(n, pg) ==
  IF Entry(n).dom # <<>> THEN tape ELSE Put(n, [Entry(n) EXCEPT !.dom = <<pg>>])
PutCard(n, k, c) ==
  IF k <= Len(Entry(n).cards) THEN tape
  ELSE Put(n, [Entry(n) EXCEPT !.cards = Append(@, c)])

\* Containers with several body, date and rating elements.
ChainBodySels == <<"div[itemprop='reviewBody']", "div[class*='reviewBody']", "p",
                   "div[class*='review']", "div[class*='content']">>
\* a text longer than MinBodyLen, of another length for every selector,
\* between white space (U+0085 before, U+2028, form feed and line feed after)
LongOf(k) ==
  <<133>> \o Rep(Ord("x"), MinBodyLen + 1 + Len(ChainBodySels) - k) \o <<8232>> \o Str(<<"\f", "\n">>)
BodyOutcomes(k) == {Fail, Got(BlankText), Got(EdgeText), Got(LongOf(k))}
RichBodies ==
  {[s \in BodySelectorSet |->
      IF \E k \in 1..Len(ChainBodySels) : ChainBodySels[k] = s
        THEN f[CHOOSE k \in 1..Len(ChainBodySels) : ChainBodySels[k] = s]
        ELSE Fail] :
   f \in {g \in [1..Len(ChainBodySels) -> UNION {BodyOutcomes(k) : k \in 1..Len(ChainBodySels)}] :
            \A k \in 1..Len(ChainBodySels) : g[k] \in BodyOutcomes(k)}}

DateOutcomes(s) ==
  CASE s = "time" -> {FailDate, GotDate(EmptyText), GotDate(JunkText), GotDate(TimeText(1))}
    [] s = "span:has-text('Reviewed on')" -> {FailDate, GotDate(ReviewedOnText(2))}
    [] s = "div:has-text('Reviewed on')" -> {FailDate, GotDate(BarePrefixDate(0))}
    [] s = "span:has-text(', 20')" -> {FailDate, GotDate(TimeText(2))}
    [] OTHER -> {FailDate, GotDate(TimeText(0))}
RichDates ==
  {f \in [DateSelectorSet -> UNION {DateOutcomes(s) : s \in DateSelectorSet}] :
     \A s \in DateSelectorSet : f[s] \in DateOutcomes(s)}

\* A rating element: absent, raising on access, or with a value; the text of
\* a span may be empty, the content attribute of a meta may be missing.
RatingOutcomes(s) ==
  {[kind |-> "absent", val |-> Fail], [kind |-> "raise", val |-> Fail],
   [kind |-> "value", val |-> Got(<<>>)]}
    \cup (IF IsMeta(s)
            THEN {[kind |-> "value", val |-> Fail], [kind |-> "value", val |-> Got(Str(<<"5">>))]}
            ELSE {[kind |-> "value", val |-> Got(Str(<<" ">>))],
                  [kind |-> "value", val |-> Got(Str(<<"4", " ">>))]})
RatingSelectorSet == {rating_selectors[k] : k \in 1..Len(rating_selectors)}
RichRatings ==
  {f \in [RatingSelectorSet -> UNION {RatingOutcomes(s) : s \in RatingSelectorSet}] :
     \A s \in RatingSelectorSet : f[s] \in RatingOutcomes(s)}

ChainCard(b, d, r) == [body |-> b, date |-> d, title |-> Got(Str(<<"T">>)), rating |-> r]

\* a blank first candidate, then two long ones, for either adapter
MixedBody ==
  [s \in BodySelectorSet |->
     IF s = "div[itemprop='reviewBody']" THEN Got(BlankText)
     ELSE IF s = "div[class*='reviewBody']" THEN Got(LongOf(2))
     ELSE IF s = "p" THEN Got(LongOf(3))
     ELSE Fail]

ChainCards ==
  {ChainCard(b, DateAt("time", TimeText(1)), SpanRating) : b \in RichBodies}
    \cup {ChainCard(MixedBody, d, SpanRating) : d \in RichDates}
    \cup {ChainCard(BodyAt("p", GoodText), DateAt("time", TimeText(1)), r) : r \in RichRatings}

\* The containers of a page longer than the cap: one older than the window
\* without a body, one inside the window with a body.
LongCards == {MkCard(NoBodyElems, DateAt("time", TimeText(0))),
              MkCard(BodyAt("p", GoodText), DateAt("time", TimeText(1)))}
ChainCounts ==
  {CountOf(1, 0, <<>>)} \cup {CountOf(CardCap + 1, 0, <<c>>) : c \in LongCards}

\* The k-th container of a page in descending order under the date top,
\* with or without a body. Day numbers start at 0: the pages hold no
\* container dated before day 0.
DescCards(top, k) ==
  IF top - k < 0 THEN {}
  ELSE {MkCard(b, DateAt("time", TimeText(top - k))) :
          b \in {NoBodyElems, BodyAt("p", GoodText)}}
\* The first page puts its first container before start_d at one of the
\* places 1, 2, n - 1, n, or nowhere; a later page goes on under the date
\* of the container before it.
CapTops(n) ==
  IF last_d # NoDate THEN {last_d}
  ELSE {start_d + f - 1 : f \in {1, 2, n - 1, n, n + 1}}
CapCounts ==
  {CountOf(2, t, <<>>) : t \in CapTops(2)}
    \cup UNION {{CountOf(CardCap + 1, t, <<c>>) : c \in DescCards(t, CardCap + 1)} :
                 t \in CapTops(CardCap + 1)}

PairCards ==
  {MkCard(BodyAt("p", GoodText), DateAt("time", TimeText(d))) : d \in {0, 1}}
    \cup {MkCard(BodyAt("p", GoodText), DateAt("time", NoYearText(d))) : d \in {1, 59, 60}}
PairPages == [html : {CleanHtml, DeniedHtml}, n : 0..1, top : {0}, rest : {<<>>}]

\* On a static page the probe finds a container exactly when there is one.
StaticProbe(pg) == IF pg.n > 0 THEN SomeProbe ELSE NoneProbe
DomChoices(n) == IF Entry(n).dom # <<>> THEN {Entry(n).dom[1]} ELSE PairPages

NavChoices(n, k) ==
  IF run = 2 /\ k <= Len(Entry(n).nav) THEN {Entry(n).nav[k]}
  ELSE IF run \in {1, 2} THEN {"ok", "timeout"} ELSE NavOutcomes
ProbeChoices(n) ==
  IF run \in {1, 2} THEN {[pg |-> pg, probe |-> StaticProbe(pg)] : pg \in DomChoices(n)}
  ELSE IF run = 0 THEN {[pg |-> NoPage, probe |-> pr] : pr \in ProbeSamples}
  ELSE {[pg |-> NoPage, probe |-> SomeProbe]}
ContentChoices(n) ==
  IF run \in {1, 2} THEN {[pg |-> pg, html |-> Got(pg.html)] : pg \in DomChoices(n)}
  ELSE IF run = 0
    THEN {[pg |-> NoPage, html |-> Got(h)] : h \in Htmls} \cup {[pg |-> NoPage, html |-> Fail]}
  ELSE {[pg |-> NoPage, html |-> Got(CleanHtml)]}
CountChoices(n) ==
  IF run \in {1, 2}
    THEN {[pg |-> pg, count |-> CountOf(pg.n, 0, <<>>)] : pg \in DomChoices(n)}
  ELSE {[pg |-> NoPage, count |-> c] :
          c \in IF run = 0 THEN {CountOf(k, 0, <<>>) : k \in 0..MaxCards} \cup {CountRaise}
                ELSE IF run = 3 THEN ChainCounts
                ELSE CapCounts}
CardChoices(n, k) ==
  IF run = 2 /\ k <= Len(Entry(n).cards) THEN {Entry(n).cards[k]}
  ELSE IF run = 0 THEN Cards
  ELSE IF run = 3 THEN (IF page.n > CardCap THEN LongCards ELSE ChainCards)
  ELSE IF run = 4 THEN DescCards(page.top, k)
  ELSE PairCards

Min(a, b) == IF a <= b THEN a ELSE b

\* -------------------------------------------------------------- the runs
args == <<source, max_pages, start_d, end_d, today>>
ghosts == <<eligible, ordered, last_d, first_old>>
locals == <<body, date_text, rating>>
pagevars == <<page, found_any, card_count, i, card, grew, blocked, locals>>
mainvars == <<output, exit_status, written>>

NoPrev == [source |-> "none", pc |-> "none", stop_reason |-> "NONE",
           fetched |-> <<>>, result |-> <<>>]
NoOld == [page |-> 0, k |-> 0]

InitLocals ==
  /\ page_no = 0
  /\ collected = <<>>
  /\ stop_due_to_old = FALSE
  /\ session = NoSession
  /\ found_any = FALSE
  /\ card_count = 0
  /\ i = 0
  /\ card = NoCard
  /\ grew = FALSE
  /\ blocked = FALSE
  /\ body = Fail
  /\ date_text = FailDate
  /\ rating = Fail
  /\ result = <<>>
  /\ stop_reason = "NONE"
  /\ attempts = <<>>
  /\ fetched = <<>>
  /\ eligible = 0
  /\ ordered = TRUE
  /\ last_d = NoDate
  /\ first_old = NoOld

InitRun ==
  /\ pc = "start"
  /\ page = NoPage
  /\ InitLocals

\* The scrapers called on their own: the output directory is in place.
InitMain ==
  /\ output = "dir"
  /\ exit_status = <<>>
  /\ written = FALSE

Init ==
  /\ source \in Sources
  /\ max_pages \in -1..MaxPagesBound
  /\ \E w \in Windows : start_d = w[1] /\ end_d = w[2]
  /\ today = 0
  /\ run = 0
  /\ tape = <<>>
  /\ prev = NoPrev
  /\ InitRun
  /\ InitMain

\* An exception of a navigation leaves the loop and the with block and
\* reaches the caller: nothing is returned, and the close() calls after the
\* loop are not reached.
Propagate ==
  /\ pc' = "error"
  /\ session' = session

\* The same for an exception of page.content() or cards.count().
Raise ==
  /\ pc' = "raised"
  /\ session' = session

\* range(1, max_pages + 2)
LoopNext_off_by_one(n) ==
  IF n <= max_pages + 1
    THEN /\ page_no' = n
         /\ pc' = "goto"
         /\ stop_reason' = stop_reason
    ELSE /\ page_no' = page_no
         /\ pc' = "close"
         /\ stop_reason' = "MAX_PAGES"

\* for page_no in range(1, max_pages + 1): the next iteration, or the end of
\* the loop.
LoopNext(n) ==
  IF n <= max_pages
    THEN /\ page_no' = n
         /\ pc' = "goto"
         /\ stop_reason' = stop_reason
    ELSE /\ page_no' = page_no
         /\ pc' = "close"
         /\ stop_reason' = "MAX_PAGES"

\* A break out of the pagination loop.
Break(reason) ==
  /\ pc' = "close"
  /\ stop_reason' = reason
  /\ page_no' = page_no

\* Launch of the browser session and entry into the loop.
Launch(src) ==
  /\ pc = "start"
  /\ source = src
  /\ session' = LaunchSession
  /\ LoopNext(1)
  /\ UNCHANGED <<args, mainvars, collected, stop_due_to_old, pagevars, result, attempts,
                 fetched, ghosts, run, tape, prev>>

scrape_g2_launch == Launch("g2")

scrape_trustradius_launch == Launch("trustradius")

\* page.goto(url, timeout=60000, wait_until="domcontentloaded")
PrimaryGoto(src, onTimeout) ==
  /\ pc = "goto"
  /\ source = src
  /\ \E o \in NavChoices(page_no, 1) :
       /\ attempts' = <<[wait |-> "domcontentloaded", res |-> o]>>
       /\ tape' = PutNav(page_no, 1, o)
       /\ CASE o = "ok" -> pc' = "load" /\ session' = session
            [] o = "timeout" /\ onTimeout = "retry" -> pc' = "retry" /\ session' = session
            [] OTHER -> Propagate
  /\ fetched' = Append(fetched, page_no)
  /\ page' = NoPage
  /\ found_any' = FALSE
  /\ UNCHANGED <<args, mainvars, page_no, collected, stop_due_to_old, card_count,
                 i, card, grew, blocked, locals, result, stop_reason, ghosts,
                 run, prev>>

\* goto without the except clause
scrape_g2_goto_no_retry == PrimaryGoto("g2", "raise")

\* try: goto ... except PlaywrightTimeoutError: retry
scrape_g2_goto == PrimaryGoto("g2", "retry")

\* no try around goto
scrape_trustradius_goto == PrimaryGoto("trustradius", "raise")

\* page.goto(url, timeout=60000, wait_until="load"), inside the except clause
scrape_g2_retry ==
  /\ pc = "retry"
  /\ source = "g2"
  /\ \E o \in NavChoices(page_no, 2) :
       /\ attempts' = Append(attempts, [wait |-> "load", res |-> o])
       /\ tape' = PutNav(page_no, 2, o)
       /\ IF o = "ok" THEN pc' = "load" /\ session' = session ELSE Propagate
  /\ UNCHANGED <<args, mainvars, page_no, collected, stop_due_to_old, pagevars, result,
                 stop_reason, fetched, ghosts, run, prev>>

\* found_any: some selector of candidate_waits has count() > 0; a count()
\* that raises is passed over.
FoundAny(pr) == \E k \in 1..Len(candidate_waits) : pr[k] = "some"

\* After the navigation: cookies, scroll and the container probe.
scrape_g2_probe ==
  /\ pc = "load"
  /\ source = "g2"
  /\ \E x \in ProbeChoices(page_no) :
       /\ found_any' = FoundAny(x.probe)
       /\ tape' = PutDom(page_no, x.pg)
  /\ pc' = "content"
  /\ i' = 0
  /\ UNCHANGED <<args, mainvars, page_no, collected, stop_due_to_old, session, page,
                 card_count, card, grew, blocked, locals, result, stop_reason,
                 attempts, fetched, ghosts, run, prev>>

\* the two tests in the other order
G2PageVerdict_probe_first(html, found) ==
  IF ~found THEN "NO_CONTAINERS"
  ELSE IF detect_blocked(html) THEN "BLOCKED"
  ELSE "EXTRACT"

\* if detect_blocked(html): break; if not found_any: break
G2PageVerdict(html, found) ==
  IF detect_blocked(html) THEN "BLOCKED"
  ELSE IF ~found THEN "NO_CONTAINERS"
  ELSE "EXTRACT"

\* html = page.content(), the blocked-page test and the no-container test.
scrape_g2_content ==
  /\ pc = "content"
  /\ source = "g2"
  /\ \E x \in ContentChoices(page_no) :
       /\ tape' = PutDom(page_no, x.pg)
       /\ IF ~x.html.ok
            THEN /\ Raise
                 /\ UNCHANGED <<page, blocked, stop_reason, page_no>>
            ELSE /\ page' = [page EXCEPT !.html = x.html.text]
                 /\ blocked' = detect_blocked(x.html.text)
                 /\ session' = session
                 /\ IF G2PageVerdict(x.html.text, found_any) # "EXTRACT"
                      THEN Break(G2PageVerdict(x.html.text, found_any))
                      ELSE pc' = "count" /\ UNCHANGED <<stop_reason, page_no>>
  /\ UNCHANGED <<args, mainvars, collected, stop_due_to_old, found_any, card_count, i,
                 card, grew, locals, result, attempts, fetched, ghosts, run, prev>>

\* cards = page.locator(...); card_count = min(cards.count(), 60)
CountCards(src) ==
  /\ pc = "count"
  /\ source = src
  /\ \E x \in CountChoices(page_no) :
       /\ tape' = PutDom(page_no, x.pg)
       /\ IF ~x.count.ok
            THEN /\ Raise
                 /\ UNCHANGED <<page, card_count>>
            ELSE /\ page' = [page EXCEPT !.n = x.count.n, !.top = x.count.top,
                                         !.rest = x.count.rest]
                 /\ card_count' = Min(x.count.n, CardCap)
                 /\ pc' = "cards"
                 /\ session' = session
  /\ UNCHANGED <<args, mainvars, page_no, collected, stop_due_to_old, found_any, i,
                 card, grew, blocked, locals, result, stop_reason, attempts, fetched,
                 ghosts, run, prev>>

scrape_g2_count == CountCards("g2")

\* if cards.count() == 0
TRNoCards(n) == n = 0

\* After the navigation: cookies, scroll, the cards locator and the first
\* cards.count().
scrape_trustradius_probe ==
  /\ pc = "load"
  /\ source = "trustradius"
  /\ \E x \in CountChoices(page_no) :
       /\ tape' = PutDom(page_no, x.pg)
       /\ IF ~x.count.ok
            THEN /\ Raise
                 /\ UNCHANGED <<page, stop_reason, page_no>>
            ELSE /\ page' = [page EXCEPT !.n = x.count.n, !.top = x.count.top,
                                         !.rest = x.count.rest]
                 /\ session' = session
                 /\ IF TRNoCards(x.count.n)
                      THEN Break("NO_CONTAINERS")
                      ELSE pc' = "count" /\ UNCHANGED <<stop_reason, page_no>>
  /\ i' = 0
  /\ UNCHANGED <<args, mainvars, collected, stop_due_to_old, found_any, card_count,
                 card, grew, blocked, locals, result, attempts, fetched, ghosts,
                 run, prev>>

\* card_count = min(cards.count(), 60): the second cards.count()
scrape_trustradius_count == CountCards("trustradius")

\* collected = [{...}]
Collect_overwrite(coll, rec) == <<rec>>

\* collected.append({...})
Collect(coll, rec) == Append(coll, rec)

\* Bookkeeping for the claims: what the container just processed was.
Observe(c, b, d) ==
  /\ card' = c
  /\ tape' = PutCard(page_no, i + 1, c)
  /\ eligible' = IF b.ok /\ d # NoDate /\ start_d <= d /\ d <= end_d
                   THEN eligible + 1 ELSE eligible
  /\ ordered' = (ordered /\ d # NoDate /\ (last_d = NoDate \/ d < last_d))
  /\ last_d' = d
  /\ first_old' = IF first_old = NoOld /\ d # NoDate /\ d < start_d
                    THEN [page |-> page_no, k |-> i + 1] ELSE first_old

\* Bookkeeping for the claims: the containers of the page beyond the cap,
\* which the loop has not looked at, from the k-th of them on.
RECURSIVE Overlook(_, _, _)
Overlook(sels, k, seen) ==
  IF k > Len(page.rest) THEN seen
  ELSE LET d == ParsedDate(DateChain(page.rest[k], sels, 1))
       IN  Overlook(sels, k + 1,
             [ordered |-> seen.ordered /\ d # NoDate
                            /\ (seen.last_d = NoDate \/ d < seen.last_d),
              last_d |-> d,
              first_old |-> IF seen.first_old = NoOld /\ d # NoDate /\ d < start_d
                              THEN [page |-> page_no, k |-> card_count + k]
                              ELSE seen.first_old])

PageLeft(sels) ==
  LET seen == Overlook(sels, 1, [ordered |-> ordered, last_d |-> last_d,
                                 first_old |-> first_old])
  IN  /\ ordered' = seen.ordered
      /\ last_d' = seen.last_d
      /\ first_old' = seen.first_old
      /\ eligible' = eligible

\* One iteration of `for i in range(card_count)` of scrape_g2.
scrape_g2_card ==
  /\ pc = "cards"
  /\ source = "g2"
  /\ i < card_count
  /\ \E c \in CardChoices(page_no, i + 1) :
       LET b == BodyChain(c, body_selectors, 1)
           dt == DateChain(c, date_selectors, 1)
           d == ParsedDate(dt)
       IN  /\ Observe(c, b, d)
           /\ body' = b
           /\ date_text' = dt
           /\ IF OldTrigger(b, d, start_d)
                THEN /\ stop_due_to_old' = TRUE
                     /\ collected' = collected
                     /\ rating' = rating
                     /\ i' = Continue(i, card_count)
                ELSE /\ stop_due_to_old' = stop_due_to_old
                     /\ rating' = RatingChain(c, 1, Fail)
                     /\ collected' = IF Accepted(b, d, start_d, end_d)
                                       THEN Collect(collected, G2Record(c, b, d))
                                       ELSE collected
                     /\ i' = i + 1
  /\ grew' = (collected' # collected)
  /\ UNCHANGED <<args, mainvars, pc, page_no, session, page, found_any, card_count,
                 blocked, result, stop_reason, attempts, fetched, run, prev>>

\* One iteration of `for i in range(card_count)` of scrape_trustradius.
scrape_trustradius_card ==
  /\ pc = "cards"
  /\ source = "trustradius"
  /\ i < card_count
  /\ \E c \in CardChoices(page_no, i + 1) :
       LET b == BodyChain(c, tr_body_selectors, 1)
           dt == DateChain(c, tr_date_selectors, 1)
           d == ParsedDate(dt)
       IN  /\ Observe(c, b, d)
           /\ body' = b
           /\ date_text' = dt
           /\ collected' = IF Accepted(b, d, start_d, end_d)
                             THEN Collect(collected, TRRecord(c, b, d))
                             ELSE collected
  /\ grew' = (collected' # collected)
  /\ i' = i + 1
  /\ UNCHANGED <<args, mainvars, pc, page_no, stop_due_to_old, session, page, found_any,
                 card_count, blocked, rating, result, stop_reason, attempts, fetched,
                 run, prev>>

\* the flag never looked at
StopAfterPage_never(flag) == FALSE

\* if stop_due_to_old: break
StopAfterPage(flag) == flag

\* After the last container of the page: the date-boundary break, or the
\* next iteration.
scrape_g2_next ==
  /\ pc = "cards"
  /\ source = "g2"
  /\ i = card_count
  /\ IF StopAfterPage(stop_due_to_old) THEN Break("DATE_BOUNDARY") ELSE LoopNext(page_no + 1)
  /\ PageLeft(date_selectors)
  /\ UNCHANGED <<args, mainvars, collected, stop_due_to_old, session, pagevars, result,
                 attempts, fetched, run, tape, prev>>

scrape_trustradius_next ==
  /\ pc = "cards"
  /\ source = "trustradius"
  /\ i = card_count
  /\ LoopNext(page_no + 1)
  /\ PageLeft(tr_date_selectors)
  /\ UNCHANGED <<args, mainvars, collected, stop_due_to_old, session, pagevars, result,
                 attempts, fetched, run, tape, prev>>

\* context.close(); browser.close(); return collected
Return(src) ==
  /\ pc = "close"
  /\ source = src
  /\ session' = CloseSession(session)
  /\ result' = collected
  /\ pc' = "done"
  /\ UNCHANGED <<args, mainvars, page_no, collected, stop_due_to_old, pagevars, stop_reason,
                 attempts, fetched, ghosts, run, tape, prev>>

scrape_g2_return == Return("g2")

scrape_trustradius_return == Return("trustradius")

Step ==
  \/ scrape_g2_launch
  \/ scrape_g2_goto
  \/ scrape_g2_retry
  \/ scrape_g2_probe
  \/ scrape_g2_content
  \/ scrape_g2_count
  \/ scrape_g2_card
  \/ scrape_g2_next
  \/ scrape_g2_return
  \/ scrape_trustradius_launch
  \/ scrape_trustradius_goto
  \/ scrape_trustradius_probe
  \/ scrape_trustradius_count
  \/ scrape_trustradius_card
  \/ scrape_trustradius_next
  \/ scrape_trustradius_return

Next == Step

Spec == Init /\ [][Next]_vars

Terminal == pc \in {"done", "error", "raised"}

\* Two runs, one after the other, over the same page source.
InitPair ==
  /\ source \in Sources
  /\ max_pages \in 1..MaxPagesBound
  /\ start_d = 1
  /\ end_d = 2
  /\ today \in Years
  /\ run = 1
  /\ tape = <<>>
  /\ prev = NoPrev
  /\ InitRun
  /\ InitMain

\* collected: List[Dict] = []  -- every call starts with a list of its own
NewList(old) == <<>>

\* The first run has ended: remember its outcome and start the second run,
\* at once or a year later.
Restart ==
  /\ run = 1
  /\ Terminal
  /\ prev' = [source |-> source, pc |-> pc, stop_reason |-> stop_reason,
              fetched |-> fetched, result |-> result]
  /\ run' = 2
  /\ source' \in Sources
  /\ today' \in {y \in Years : y >= today}
  /\ pc' = "start"
  /\ page_no' = 0
  /\ collected' = NewList(collected)
  /\ stop_due_to_old' = FALSE
  /\ session' = NoSession
  /\ page' = NoPage
  /\ found_any' = FALSE
  /\ card_count' = 0
  /\ i' = 0
  /\ card' = NoCard
  /\ grew' = FALSE
  /\ blocked' = FALSE
  /\ body' = Fail
  /\ date_text' = FailDate
  /\ rating' = Fail
  /\ result' = <<>>
  /\ stop_reason' = "NONE"
  /\ attempts' = <<>>
  /\ fetched' = <<>>
  /\ eligible' = 0
  /\ ordered' = TRUE
  /\ last_d' = NoDate
  /\ first_old' = NoOld
  /\ UNCHANGED <<max_pages, start_d, end_d, tape, mainvars>>

NextPair == Step \/ Restart

SpecPair == InitPair /\ [][NextPair]_vars

\* A single run over one page of the richer page source.
InitChain ==
  /\ source \in Sources
  /\ max_pages = 1
  /\ start_d = 1
  /\ end_d = 2
  /\ today = 0
  /\ run = 3
  /\ tape = <<>>
  /\ prev = NoPrev
  /\ InitRun
  /\ InitMain

SpecChain == InitChain /\ [][Next]_vars

\* A single run over pages in descending date order, the window far enough
\* from day 0 for two pages of more containers than the cap to fit before
\* it.
InitCap ==
  /\ source \in Sources
  /\ max_pages \in 1..2
  /\ start_d = 3 * CardCap
  /\ end_d = 3 * CardCap + 1
  /\ today = 0
  /\ run = 4
  /\ tape = <<>>
  /\ prev = NoPrev
  /\ InitRun
  /\ InitMain

SpecCap == InitCap /\ [][Next]_vars

\* ------------------------------------------------- detect_blocked by itself
\* The upper-case form of an ASCII letter.
UpperChar(c) == IF 97 <= c /\ c <= 122 THEN c - 32 ELSE c

upper(t) == [k \in 1..Len(t) |-> UpperChar(t[k])]
Alternate(t) ==
  [k \in 1..Len(t) |-> IF k % 2 = 1 THEN UpperChar(t[k]) ELSE ToLower(t[k])]

\* t with every code point a replaced by b
Subst(t, a, b) == [k \in 1..Len(t) |-> IF t[k] = a THEN b ELSE t[k]]

\* Markup to try the detector on: every phrase as written, in lower, upper
\* and mixed case, with its first letter missing, with the Kelvin sign
\* (U+212A) for k, the dotted capital I (U+0130) for i and the capital sigma
\* (U+03A3) for S, markup without
\* any phrase and the empty string, each bare and inside other markup.
PhraseVariants(n) ==
  {n, lower(n), upper(n), Alternate(n), Tail(n), Subst(n, Ord("k"), 8490),
   Subst(n, Ord("i"), 304), Subst(upper(n), Ord("S"), 931)}
DetectMids ==
  UNION {PhraseVariants(needles[k]) : k \in 1..Len(needles)} \cup {<<>>, CleanHtml}
DetectInputs ==
  {pre \o mid \o suf : pre \in {<<>>, Str(<<"<", "p", ">">>), <<304>>}, mid \in DetectMids,
                       suf \in {<<>>, Str(<<"!">>)}}

InitDetect ==
  /\ source \in Sources
  /\ max_pages = 1
  /\ start_d = 1
  /\ end_d = 2
  /\ today = 0
  /\ run = 0
  /\ tape = <<>>
  /\ prev = NoPrev
  /\ pc = "detect"
  /\ \E h \in DetectInputs : page = [NoPage EXCEPT !.html = h]
  /\ InitLocals
  /\ InitMain

\* blocked = detect_blocked(html)
detect_blocked_call ==
  /\ pc = "detect"
  /\ blocked' = detect_blocked(page.html)
  /\ pc' = "detected"
  /\ UNCHANGED <<args, mainvars, page_no, collected, stop_due_to_old, session,
                 page, found_any, card_count, i, card, grew, locals, result,
                 stop_reason, attempts, fetched, ghosts, run, tape, prev>>

NextDetect == detect_blocked_call

SpecDetect == InitDetect /\ [][NextDetect]_vars

\* -------------------------------------------------------------------- main
OutputStates == {"absent", "dir", "file"}
MainSources == Sources \cup {"capterra"}

\* the message printed, the run going on
ensure_output_dir_no_exit(o) == [exit |-> <<>>, output |-> o]

\* if os.path.exists("output") and not os.path.isdir("output"): sys.exit(1)
\* os.makedirs("output", exist_ok=True)
ensure_output_dir(o) ==
  IF o # "absent" /\ o # "dir"
    THEN [exit |-> <<1>>, output |-> o]
    ELSE [exit |-> <<>>, output |-> "dir"]

\* main up to the dispatch: the arguments, the two dates (strptime raises
\* on text that is no YYYY-MM-DD date) and ensure_output_dir.
main_start ==
  /\ pc = "main"
  /\ \E dates_ok \in BOOLEAN :
       IF ~dates_ok
         THEN /\ pc' = "crashed"
              /\ exit_status' = <<1>>
              /\ output' = output
         ELSE LET r == ensure_output_dir(output)
              IN  /\ output' = r.output
                  /\ exit_status' = r.exit
                  /\ pc' = IF r.exit # <<>> THEN "exit" ELSE "start"
  /\ UNCHANGED <<args, page_no, collected, stop_due_to_old, session, pagevars,
                 result, stop_reason, attempts, fetched, ghosts, run, tape, prev,
                 written>>

\* def scrape_capterra(...): return []
scrape_capterra ==
  /\ pc = "start"
  /\ source = "capterra"
  /\ result' = <<>>
  /\ pc' = "done"
  /\ UNCHANGED <<args, mainvars, page_no, collected, stop_due_to_old, session,
                 pagevars, stop_reason, attempts, fetched, ghosts, run, tape, prev>>

\* with open(output_file, "w") as f: json.dump(data, f); print("Saved ...")
main_save ==
  /\ pc = "done"
  /\ IF output = "dir"
       THEN written' = TRUE /\ pc' = "saved" /\ exit_status' = <<0>>
       ELSE written' = written /\ pc' = "crashed" /\ exit_status' = <<1>>
  /\ UNCHANGED <<args, output, page_no, collected, stop_due_to_old, session,
                 pagevars, result, stop_reason, attempts, fetched, ghosts, run,
                 tape, prev>>

\* An exception of the scraper is caught nowhere in main: the process ends
\* with a traceback and status 1, without the output file.
main_uncaught ==
  /\ pc \in {"error", "raised"}
  /\ pc' = "crashed"
  /\ exit_status' = <<1>>
  /\ UNCHANGED <<args, output, written, page_no, collected, stop_due_to_old,
                 session, pagevars, result, stop_reason, attempts, fetched,
                 ghosts, run, tape, prev>>

InitProcess ==
  /\ source \in MainSources
  /\ max_pages \in 0..1
  /\ start_d = 1
  /\ end_d = 2
  /\ today = 0
  /\ run = 0
  /\ tape = <<>>
  /\ prev = NoPrev
  /\ pc = "main"
  /\ page = NoPage
  /\ InitLocals
  /\ output \in OutputStates
  /\ exit_status = <<>>
  /\ written = FALSE

NextMain == main_start \/ Step \/ scrape_capterra \/ main_save \/ main_uncaught

SpecMain == InitProcess /\ [][NextMain]_vars

\* ------------------------------------------------------------- the claims
InWindow(d) == d # NoDate /\ start_d <= d /\ d <= end_d

\* The records of a list.
Records(l) == {l[k] : k \in 1..Len(l)}

\* The container processed last, as the running adapter reads it.
SelsOfBody == IF source = "g2" THEN body_selectors ELSE tr_body_selectors
JustProcessed == pc = "cards" /\ i > 0

\* C1: in both adapters every record of collected and of the returned list
\* carries a date inside [start_d, end_d], and a container whose parsed date
\* lies outside the window adds no record.
C1_RangeInvariant ==
  /\ \A r \in Records(collected) \cup Records(result) : InWindow(r.date.iso)
  /\ Len(collected) <= eligible
  /\ (JustProcessed /\ ~InWindow(last_d)) => ~grew

\* C1 witness: scrape_trustradius has a record and has just passed over a
\* container with a body whose date is older than the window.
C1_Witness ==
  /\ source = "trustradius"
  /\ JustProcessed
  /\ collected # <<>>
  /\ last_d # NoDate /\ last_d < start_d
  /\ BodyChain(card, tr_body_selectors, 1).ok

\* The first container dated before start_d is known, and everything so
\* far was dated in strictly descending order.
FirstOldSeen == source = "g2" /\ ordered /\ first_old # NoOld

BlockedHtmls == {DeniedHtml, TrafficHtml}

\* C3: in scrape_g2 a page whose markup holds an indicator phrase, in any
\* letter case, halts the run on that page with BLOCKED: none of its
\* containers is processed, no later page is fetched, and what was collected
\* on the earlier pages is returned.
C3_BlockedStop ==
  (source = "g2" /\ page.html \in BlockedHtmls) =>
    /\ pc \in {"close", "done"}
    /\ stop_reason = "BLOCKED"
    /\ i = 0
    /\ fetched[Len(fetched)] = page_no /\ Len(fetched) = page_no
    /\ Len(collected) = eligible
    /\ pc = "done" => result = collected

\* C3 witness: page 2 was served in upper case "UNUSUAL traffic" markup with
\* containers on it, after a record from page 1, and the run returned.
C3_Witness ==
  /\ source = "g2"
  /\ pc = "done"
  /\ page.html = TrafficHtml /\ found_any
  /\ page_no = 2
  /\ Len(result) >= 1

\* page.content() has been read on the current page.
Loaded == page.html # <<>>

\* C4 as claimed: a page on which no container selector matches always halts
\* with NO_CONTAINERS, and BLOCKED is reported only for pages with containers.
C4_ProbeFirst ==
  (source = "g2" /\ Loaded) =>
    /\ ~found_any => stop_reason = "NO_CONTAINERS"
    /\ stop_reason = "BLOCKED" => found_any

\* C4 amended: in scrape_g2 the blocked-page test is decided before the
\* container probe's result. A page without containers halts the run with
\* zero records: with BLOCKED when its markup holds an indicator phrase, with
\* NO_CONTAINERS otherwise; NO_CONTAINERS is reported only for pages whose
\* markup holds no indicator phrase.
C4_BlockedFirst ==
  (source = "g2" /\ Loaded) =>
    /\ ~found_any =>
         /\ pc \in {"close", "done"}
         /\ i = 0
         /\ stop_reason = IF page.html \in BlockedHtmls THEN "BLOCKED"
                          ELSE "NO_CONTAINERS"
    /\ stop_reason = "NO_CONTAINERS" => (~found_any /\ page.html \notin BlockedHtmls)
    /\ stop_reason = "BLOCKED" => page.html \in BlockedHtmls

\* C4 witness: a page without containers and with "Access Denied" markup
\* ended the run with BLOCKED.
C4_Witness ==
  /\ source = "g2"
  /\ pc = "done"
  /\ ~found_any /\ page.html = DeniedHtml
  /\ stop_reason = "BLOCKED"

\* C5: in scrape_g2 the first attempt for a page waits for
\* domcontentloaded; a timeout of it is followed by one retry with wait
\* "load"; a failed retry, and any other failure, propagates and ends the
\* run on that page; no page has more than two attempts and no page number
\* is navigated to twice.
C5_NavigationRetry ==
  source = "g2" =>
    /\ Len(attempts) <= 2
    /\ attempts # <<>> =>
         /\ attempts[1].wait = "domcontentloaded"
         /\ attempts[1].res = "timeout" => (Len(attempts) = 2 \/ pc = "retry")
         /\ attempts[1].res = "error" => (Len(attempts) = 1 /\ pc = "error")
         /\ attempts[1].res = "ok" => Len(attempts) = 1
    /\ Len(attempts) = 2 =>
         /\ attempts[1].res = "timeout"
         /\ attempts[2].wait = "load"
         /\ attempts[2].res # "ok" => pc = "error"
    /\ pc = "retry" => (Len(attempts) = 1 /\ attempts[1].res = "timeout")
    /\ pc = "error" => (attempts # <<>> /\ attempts[Len(attempts)].res # "ok"
                         /\ fetched[Len(fetched)] = page_no)
    /\ \A k \in 1..Len(fetched) : fetched[k] = k

\* C5 witness: page 2 timed out, the retry failed too and the failure
\* propagated.
C5_Witness ==
  /\ source = "g2"
  /\ pc = "error"
  /\ page_no = 2
  /\ Len(attempts) = 2
  /\ attempts[2].wait = "load"

BothEnded == run = 2 /\ Terminal /\ prev.source # source

SameOutcome ==
  /\ prev.pc = pc
  /\ Len(prev.fetched) = Len(fetched)
  /\ prev.stop_reason = stop_reason

\* C7: over the same page sequence scrape_g2 and scrape_trustradius fetch
\* the same number of pages and end the same way, for the same reason.
C7_SameController == BothEnded => SameOutcome

Max(a, b) == IF a >= b THEN a ELSE b

PageBound ==
  /\ \A k \in 1..Len(fetched) : fetched[k] = k
  /\ Len(fetched) <= Max(max_pages, 0)
  /\ Len(attempts) <= 2
  /\ pc \notin {"start"} => (page_no = Len(fetched) \/ (pc = "goto" /\ page_no = Len(fetched) + 1))
  /\ pc \in {"close", "done"} =>
       /\ stop_reason \in {"NO_CONTAINERS", "BLOCKED", "DATE_BOUNDARY", "MAX_PAGES"}
       /\ stop_reason = "MAX_PAGES" => Len(fetched) = Max(max_pages, 0)
  /\ max_pages <= 0 => (fetched = <<>> /\ collected = <<>> /\ result = <<>>
                         /\ pc \in {"start", "close", "done"})

\* What is left of a run: the pages not yet navigated to, each worth more
\* than the steps one page can take, plus the steps left on the current page.
PageCost == CardCap + 8
StepsLeft ==
  CASE pc \in {"done", "error", "raised"} -> 0
    [] pc = "close" -> 1
    [] pc = "goto" -> 2
    [] pc = "start" -> 3
    [] pc = "cards" -> 3 + (card_count - i)
    [] pc = "count" -> 4 + CardCap
    [] pc = "content" -> 5 + CardCap
    [] pc = "load" -> 6 + CardCap
    [] pc = "retry" -> 7 + CardCap
Variant == (Max(max_pages, 0) - Len(fetched)) * PageCost + StepsLeft

\* C8: both adapters end: every step lowers Variant, which is never
\* negative, and a run that has not ended can take a step. The pages
\* navigated to are 1, 2, ..., n in this order with n <= max_pages; a run
\* that returns without a NO_CONTAINERS, BLOCKED or DATE_BOUNDARY stop has
\* fetched exactly max_pages pages and ended with MAX_PAGES; with
\* max_pages <= 0 nothing is fetched and the result is empty.
C8_PageBoundAndTermination ==
  /\ []PageBound
  /\ [](Variant >= 0 /\ (Terminal \/ ENABLED Next))
  /\ [][Variant' < Variant]_vars

\* C8 witness: a run that fetched all of its two or more pages and returned
\* with MAX_PAGES.
C8_Witness ==
  /\ pc = "done"
  /\ stop_reason = "MAX_PAGES"
  /\ max_pages >= 2
  /\ Len(fetched) = max_pages

IsPrefix(l, m) == Len(l) <= Len(m) /\ SubSeq(m, 1, Len(l)) = l

\* One step of scrape_g2 seen from the list: it keeps what it holds; it
\* grows only by the record of the container just processed, and does so
\* whenever that container has a body and an in-window date; a break, the
\* end of the loop and the return leave it alone; what is returned is the
\* list.
C9_Step ==
  source = "g2" =>
    /\ IsPrefix(collected, collected')
    /\ collected' # collected =>
         /\ pc = "cards" /\ pc' = "cards" /\ i' = i + 1
         /\ collected' = Append(collected, collected'[Len(collected')])
         /\ collected'[Len(collected')].review = BodyChain(card', body_selectors, 1).text
         /\ collected'[Len(collected')].date = isoformat(last_d')
    /\ (collected' # collected) = (eligible' # eligible)
    /\ pc' \in {"close", "done", "error", "raised"} => collected' = collected
    /\ pc' = "done" => result' = collected

\* C9: in scrape_g2 the list is append-only: it grows by exactly the records
\* accepted, in page order then container order, no stop removes or adds a
\* record, a NO_CONTAINERS or BLOCKED page adds none, and the returned list is
\* the list as it stood at the stop.
C9_NothingLost == [][C9_Step]_vars

\* C9 witness: scrape_g2 returned two records of page 1 after page 2 was
\* found blocked.
C9_Witness ==
  /\ source = "g2"
  /\ pc = "done"
  /\ stop_reason = "BLOCKED"
  /\ page_no = 2
  /\ Len(result) = 2

\* Some body candidate of the container, as the running adapter reads it,
\* has at least MinBodyLen characters.
HasLongBody(c) ==
  \E k \in 1..Len(SelsOfBody) :
    /\ c.body[SelsOfBody[k]].ok
    /\ Len(strip(c.body[SelsOfBody[k]].text)) >= MinBodyLen

\* C10: in both adapters every record's review is non-empty and at least 20
\* characters long, and a container none of whose body candidates has such a
\* text adds no record.
C10_MinBodyLength ==
  /\ \A r \in Records(collected) \cup Records(result) :
       r.review # <<>> /\ Len(r.review) >= MinBodyLen
  /\ (JustProcessed /\ ~HasLongBody(card)) => ~grew

\* C10 witness: after a record was collected, a container whose only body
\* text is 19 characters long between two blanks, dated inside the window,
\* was passed over.
C10_Witness ==
  /\ JustProcessed
  /\ Len(collected) = 1
  /\ card.body["p"] = Got(PaddedText)
  /\ InWindow(last_d)
  /\ ~grew

\* The same adapter has run twice over the same page source.
SameAdapterTwice == run = 2 /\ prev.source = source

\* C11: two runs of the same adapter over the same page source (the same
\* navigation outcomes, markup and containers per page number), with the same
\* window and max_pages, navigate to the same pages in the same order, end
\* the same way with the same stop reason and return the same records.
C11_RunDeterminism ==
  (SameAdapterTwice /\ Terminal) =>
    /\ prev.pc = pc
    /\ prev.fetched = fetched
    /\ prev.stop_reason = stop_reason
    /\ Records(prev.result) = Records(result)

\* C12: in main, while the path "output" is taken by something that is no
\* directory, no browser session is launched, no page is navigated to and
\* the output file is not written; the process ends with status 1 straight
\* from the precondition check. A session, a navigation and the output file
\* are only ever seen with the directory in place.
C12_OutputPrecondition ==
  /\ output = "file" =>
       /\ pc \in {"main", "exit", "crashed"}
       /\ session = NoSession /\ fetched = <<>> /\ attempts = <<>>
       /\ ~written
       /\ pc # "main" => exit_status = <<1>>
  /\ (session # NoSession \/ fetched # <<>> \/ written) => output = "dir"
  /\ pc = "exit" => (output = "file" /\ exit_status = <<1>>)
  /\ written => (pc = "saved" /\ exit_status = <<0>>)

\* C12 witness: a g2 run with a file named "output" in the way has ended in
\* ensure_output_dir.
C12_Witness ==
  /\ source = "g2" /\ max_pages >= 1
  /\ output = "file"
  /\ pc = "exit"
  /\ exit_status = <<1>>
  /\ session = NoSession

\* The body candidates of the container processed last, in the order the
\* running adapter tries them.
Found(k) == card.body[SelsOfBody[k]].ok
Stripped(k) == strip(card.body[SelsOfBody[k]].text)
BodyCands == 1..Len(SelsOfBody)

\* C13 as claimed: the body chain returns the first candidate found whose
\* stripped text has 20 characters or more, so one of exactly 20 is
\* accepted; with no such candidate the body is null.
C13_TwentyAccepted ==
  JustProcessed =>
    /\ \A k \in BodyCands :
         (/\ Found(k) /\ Len(Stripped(k)) >= MinBodyLen
          /\ \A j \in 1..(k - 1) : ~(Found(j) /\ Len(Stripped(j)) >= MinBodyLen))
           => body = Got(Stripped(k))
    /\ (\A k \in BodyCands : ~(Found(k) /\ Len(Stripped(k)) >= MinBodyLen))
         => body = Fail

\* C13 amended: the body chain accepts a candidate only when its stripped
\* text is longer than 20 characters: it returns the first candidate found
\* with 21 characters or more, passes over every candidate of 20 or fewer,
\* and the body is null when no candidate has more than 20.
C13_TwentyRejected ==
  JustProcessed =>
    /\ body.ok => Len(body.text) >= MinBodyLen + 1
    /\ \A k \in BodyCands :
         (/\ Found(k) /\ Len(Stripped(k)) >= MinBodyLen + 1
          /\ \A j \in 1..(k - 1) : ~(Found(j) /\ Len(Stripped(j)) >= MinBodyLen + 1))
           => body = Got(Stripped(k))
    /\ (\A k \in BodyCands : ~(Found(k) /\ Len(Stripped(k)) >= MinBodyLen + 1))
         => (body = Fail /\ ~grew)

\* C13 witness: scrape_trustradius passed over a first candidate of exactly
\* 20 characters and a blank second one and took the third, of 21.
C13_Witness ==
  /\ source = "trustradius"
  /\ JustProcessed
  /\ card.body["p"] = Got(EdgeText)
  /\ card.body["div[class*='review']"] = Got(BlankText)
  /\ body.ok /\ Len(body.text) = MinBodyLen + 1
  /\ grew

SelsOfDate == IF source = "g2" THEN date_selectors ELSE tr_date_selectors
DateCands == 1..Len(SelsOfDate)
DateCand(k) == card.date[SelsOfDate[k]]

\* A candidate's lookup succeeded with acceptable content.
BodyOK(k) == Found(k) /\ Stripped(k) # <<>> /\ Len(Stripped(k)) > MinBodyLen
DateOK(k) == DateCand(k).ok /\ DateCand(k).text # EmptyText

\* C14: for the container processed last, body is the stripped text of the
\* first body candidate, in list order, found with acceptable text, and
\* date_text the text of the first date candidate found with non-empty
\* text; failed and unacceptable candidates before it are passed over, a
\* later acceptable candidate never replaces it, and the field is null when
\* no candidate is acceptable.
C14_ChainPriority ==
  JustProcessed =>
    /\ \A k \in BodyCands :
         (BodyOK(k) /\ \A j \in 1..(k - 1) : ~BodyOK(j)) => body = Got(Stripped(k))
    /\ (\A k \in BodyCands : ~BodyOK(k)) => body = Fail
    /\ \A k \in DateCands :
         (DateOK(k) /\ \A j \in 1..(k - 1) : ~DateOK(j)) => date_text = GotDate(DateCand(k).text)
    /\ (\A k \in DateCands : ~DateOK(k)) => date_text = FailDate

\* C14 witness: in scrape_g2 the first body candidate was blank and the
\* third and the fifth acceptable: body is the third; the <time> element
\* was empty and both "Reviewed on" elements had text: date_text is the
\* span's.
C14_Witness ==
  /\ source = "g2"
  /\ JustProcessed
  /\ card.body = MixedBody
  /\ body = Got(strip(LongOf(2)))
  /\ card.date["time"] = GotDate(EmptyText)
  /\ card.date["div:has-text('Reviewed on')"].ok
  /\ date_text = GotDate(ReviewedOnText(2))

\* One container processed without a parsed date: nothing is appended and
\* the flag stays as it was.
C15_Step ==
  (pc = "cards" /\ i' # i /\ last_d' = NoDate) =>
    /\ collected' = collected
    /\ ~grew'
    /\ stop_due_to_old' = stop_due_to_old
    /\ pc' = "cards"

\* C15: a container whose date chain gives no text, or text that does not
\* parse, has date null; it never adds a record, whatever its body, and it
\* does not set stop_due_to_old: a page of such containers is followed by
\* the next page.
C15_NullDate ==
  /\ [][C15_Step]_vars
  /\ [](JustProcessed =>
        /\ (~date_text.ok \/ date_text.text.date = NoDate) => last_d = NoDate
        /\ last_d = NoDate => ~grew
        /\ (source = "g2" /\ stop_due_to_old /\ card_count = 1) => last_d # NoDate)
  /\ [][(source = "g2" /\ pc = "cards" /\ pc' # "cards" /\ ~stop_due_to_old)
          => (/\ stop_reason' # "DATE_BOUNDARY"
              /\ (page_no < max_pages => (pc' = "goto" /\ page_no' = page_no + 1)))]_vars

\* C15 witness: scrape_g2 moved on to page 2 after a page whose one
\* container had a body and a date text that does not parse; nothing was
\* collected and the flag is not set.
C15_Witness ==
  /\ source = "g2"
  /\ pc = "goto" /\ page_no = 2
  /\ card_count = 1
  /\ body.ok
  /\ date_text = GotDate(JunkText)
  /\ last_d = NoDate
  /\ collected = <<>>
  /\ ~stop_due_to_old

\* C16: in every record of scrape_g2 the rating is null or a non-empty
\* value, never the empty string, and in every record of
\* scrape_trustradius it is null.
C16_RatingNullOrValue ==
  \A r \in Records(collected) \cup Records(result) :
    /\ r.source = "G2" => (r.rating = Fail \/ (r.rating.ok /\ r.rating.text # <<>>))
    /\ r.source = "TrustRadius" => r.rating = Fail

\* One step of scrape_g2 seen from the flag.
C17_Step ==
  source = "g2" =>
    /\ stop_due_to_old => stop_due_to_old'
    /\ (pc = "cards" /\ pc' = "cards") => (i < card_count /\ i' = i + 1)
    /\ (pc = "cards" /\ pc' # "cards") =>
         /\ i = card_count
         /\ card_count = Min(page.n, CardCap)
         /\ stop_due_to_old => (pc' = "close" /\ stop_reason' = "DATE_BOUNDARY")
    /\ (pc = "cards" /\ i' # i /\ stop_due_to_old /\ body'.ok /\ InWindow(last_d')) =>
         /\ Len(collected') = Len(collected) + 1
         /\ IsPrefix(collected, collected')
         /\ collected'[Len(collected')].review = body'.text
         /\ collected'[Len(collected')].date = isoformat(last_d')

\* C17: in scrape_g2 the flag stop_due_to_old, once set, is never cleared;
\* the containers of the page are processed one by one up to
\* min(count, 60) whether or not it is set, each one with a body and an
\* in-window date is appended also after it was set, and the run leaves
\* the page, with DATE_BOUNDARY, only after the last of them.
C17_StopAtPageEnd ==
  /\ [][C17_Step]_vars
  /\ []((source = "g2" /\ pc = "cards" /\ i < card_count) => ENABLED scrape_g2_card)
  /\ []((source = "g2" /\ stop_reason = "DATE_BOUNDARY") =>
          (stop_due_to_old /\ i = card_count /\ card_count = Min(page.n, CardCap)))

\* C17 witness: on a page of 61 containers the first 59 were older than the
\* window, the 60th was inside it and was appended, the 61st was not
\* looked at, and the run returned with DATE_BOUNDARY.
C17_Witness ==
  /\ source = "g2"
  /\ page.n = CardCap + 1
  /\ pc = "done" /\ stop_reason = "DATE_BOUNDARY"
  /\ i = CardCap
  /\ grew /\ Len(result) = 1

\* One step of scrape_g2 seen from the pagination.
C18_Step ==
  source = "g2" =>
    /\ (stop_due_to_old' /\ ~stop_due_to_old) =>
         (pc = "cards" /\ i' # i /\ last_d' # NoDate /\ last_d' < start_d)
    /\ (pc = "cards" /\ pc' # "cards" /\ ~stop_due_to_old) =>
         /\ stop_reason' # "DATE_BOUNDARY"
         /\ page_no < max_pages => (pc' = "goto" /\ page_no' = page_no + 1)
         /\ page_no >= max_pages => (pc' = "close" /\ stop_reason' = "MAX_PAGES")

\* C18: in scrape_g2 stop_due_to_old is set only by a container with a
\* parsed date before start_d, and it is unset when a page is entered. A
\* page with containers that is not blocked and holds no such container is
\* followed by the next page, up to max_pages, whatever it yields: dates
\* after end_d and containers without a body add no record and stop nothing.
C18_OnlyOldStops ==
  /\ [][C18_Step]_vars
  /\ []((source = "g2" /\ (pc \in {"start", "goto", "retry", "load", "content", "count"}
                                  \/ (pc = "cards" /\ i = 0)))
          => ~stop_due_to_old)
  /\ []((source = "g2" /\ stop_reason = "DATE_BOUNDARY") => stop_due_to_old)
  /\ []((source = "g2" /\ JustProcessed /\ (~body.ok \/ (last_d # NoDate /\ last_d > end_d)))
          => ~grew)

\* C18 witness: scrape_g2 went on to page 2 after a page whose one
\* container had a body and a date after end_d; nothing was collected.
C18_Witness ==
  /\ source = "g2"
  /\ pc = "goto" /\ page_no = 2
  /\ card_count = 1
  /\ body.ok
  /\ last_d # NoDate /\ last_d > end_d
  /\ collected = <<>>
  /\ ~stop_due_to_old

\* C19: in scrape_g2 every container processed with a parsed date before
\* start_d sets stop_due_to_old, with or without a body, and adds no
\* record; with the flag set the page is the last one fetched and the run,
\* once past its last container, ends with DATE_BOUNDARY.
C19_OldWithoutBody ==
  /\ [][(source = "g2" /\ pc = "cards" /\ i' # i /\ last_d' # NoDate /\ last_d' < start_d)
          => (stop_due_to_old' /\ collected' = collected)]_vars
  /\ []((source = "g2" /\ JustProcessed /\ last_d # NoDate /\ last_d < start_d)
          => stop_due_to_old)
  /\ []((source = "g2" /\ stop_due_to_old) =>
          /\ pc \in {"cards", "close", "done"}
          /\ Len(fetched) = page_no
          /\ pc \in {"close", "done"} => stop_reason = "DATE_BOUNDARY")

\* C19 witness: scrape_g2 returned with DATE_BOUNDARY after page 1 of 2,
\* whose one container had a date before start_d and no body element.
C19_Witness ==
  /\ source = "g2"
  /\ pc = "done" /\ stop_reason = "DATE_BOUNDARY"
  /\ page_no = 1 /\ max_pages >= 2
  /\ card_count = 1
  /\ card.body = NoBodyElems /\ ~body.ok
  /\ last_d # NoDate /\ last_d < start_d
  /\ result = <<>>

\* The phrases in lower case.
LowNeedles == [x \in 1..Len(needles) |-> lower(needles[x])]

\* Two texts are equal but for the case of their letters.
EqualIgnoringCase(s, n) == lower(s) = n

\* Some stretch of h, of len code points after the first a, is the phrase
\* n but for case. A code point has one or two code points in lower case,
\* so the stretch is no longer than the phrase.
Occurs(h, n) ==
  \E a \in 0..Len(h) : \E len \in 1..Len(n) :
    /\ a + len <= Len(h)
    /\ EqualIgnoringCase(SubSeq(h, a + 1, a + len), n)

HoldsIndicator(h) == \E x \in 1..Len(needles) : Occurs(h, LowNeedles[x])

\* C20: detect_blocked(html) is true exactly when some stretch of html is
\* one of the indicator phrases but for the case of its letters; it is true
\* for markup holding "unusual traffic" in any case, false for the empty
\* string and for markup without a phrase, and the same for the same html
\* whatever else the state holds.
C20_DetectBlocked ==
  pc = "detected" =>
    /\ blocked = HoldsIndicator(page.html)
    /\ Occurs(page.html, LowNeedles[3]) => blocked
    /\ page.html \in {<<>>, CleanHtml} => ~blocked

\* C20 witness: markup holding "UNUSUAL TRAFFIC" in upper case between
\* other markup was found blocked.
C20_Witness ==
  /\ pc = "detected"
  /\ page.html = Str(<<"<", "p", ">">>) \o upper(needles[3]) \o Str(<<"!">>)
  /\ blocked

====
